---------------------------- MODULE Spec2Model ----------------------------
(***************************************************************************)
(* A model of config-lib: the Value tree and its path algebra (value.rs),  *)
(* the Config wrapper (config.rs), the CONF serializer, the per-format     *)
(* parsers and the content sniffer (parsers/).                             *)
(*                                                                         *)
(* Text is a sequence of one-character strings.  A Value is a record with  *)
(* a "tag" field; a Table's payload is a function from keys (texts) to     *)
(* Values, which like a BTreeMap holds every key at most once.             *)
(***************************************************************************)
EXTENDS Integers, Sequences, FiniteSets, TLC

VARIABLES
    values,     \* Config.values: the Value tree the Config owns
    modified,   \* Config.modified: the change flag
    last,       \* the last operation on the Config: its arguments, the tree before it, its result
    nops,       \* number of operations applied so far
    input,      \* the text handed to a parser, the sniffer or (as a tree) the serializer
    output      \* what the parser, the sniffer or the serializer returned for input

vars == <<values, modified, last, nops, input, output>>

(***************************************************************************)
(* Bounds of the model.                                                    *)
(***************************************************************************)
MaxOps == 1
MaxSegs == 3

(***************************************************************************)
(* Value (value.rs: enum Value).                                           *)
(***************************************************************************)
Null == [tag |-> "null"]
Bool(b) == [tag |-> "bool", b |-> b]
Integer(i) == [tag |-> "integer", i |-> i]
\* A float is held as its decimal expansion: mant * 10^(-frac), frac >= 0.
Float(mant, frac) == [tag |-> "float", mant |-> mant, frac |-> frac]
String(s) == [tag |-> "string", s |-> s]
Array(items) == [tag |-> "array", items |-> items]
Table(t) == [tag |-> "table", t |-> t]

EmptyMap == <<>>
EmptyTable == Table(EmptyMap)

type_name(v) == v.tag
is_table(v) == v.tag = "table"

\* Mutant: an existing key keeps its value (entry().or_insert instead of insert).
MapInsertKeep(t, k, v) == [x \in (DOMAIN t) \cup {k} |-> IF x \in DOMAIN t THEN t[x] ELSE v]

\* BTreeMap::insert / BTreeMap::remove on the payload of a Table.
MapInsert(t, k, v) == [x \in (DOMAIN t) \cup {k} |-> IF x = k THEN v ELSE t[x]]
MapRemove(t, k) == [x \in (DOMAIN t) \ {k} |-> t[x]]

\* Option<T>
None == [some |-> FALSE]
Some(v) == [some |-> TRUE, v |-> v]

(***************************************************************************)
(* Text helpers (str::split).                                              *)
(***************************************************************************)
RECURSIVE SplitFrom(_, _, _)
\* The pieces of s between occurrences of sep; acc is the piece being read.
SplitFrom(s, sep, acc) ==
    IF s = <<>> THEN <<acc>>
    ELSE IF Head(s) = sep THEN <<acc>> \o SplitFrom(Tail(s), sep, <<>>)
    ELSE SplitFrom(Tail(s), sep, Append(acc, Head(s)))

Split(s, sep) == SplitFrom(s, sep, <<>>)

(***************************************************************************)
(* Value::get                                                              *)
(***************************************************************************)
RECURSIVE GetWalk(_, _)
GetWalk(current, parts) ==
    IF parts = <<>> THEN Some(current)
    ELSE IF is_table(current)
         THEN IF Head(parts) \in DOMAIN current.t
              THEN GetWalk(current.t[Head(parts)], Tail(parts))
              ELSE None
         ELSE None

Get(self, path) ==
    IF path = <<>> THEN Some(self) ELSE GetWalk(self, Split(path, "."))

(***************************************************************************)
(* Value::get_mut_nested.  The result is res ("Ok", "KeyNotFound" or       *)
(* "TypeMismatch"), the value referred to (ref) and the tree afterwards.   *)
(***************************************************************************)
\* Mutant: every failure is reported as a missing key.
GetMutWalkNotFound(current, parts) ==
    LET r == GetWalk(current, parts)
    IN  IF r.some THEN [res |-> "Ok", ref |-> r] ELSE [res |-> "KeyNotFound", ref |-> None]

RECURSIVE GetMutWalk(_, _)
GetMutWalk(current, parts) ==
    IF is_table(current)
    THEN IF Head(parts) \in DOMAIN current.t
         THEN IF Len(parts) = 1
              THEN [res |-> "Ok", ref |-> Some(current.t[Head(parts)])]
              ELSE GetMutWalk(current.t[Head(parts)], Tail(parts))
         ELSE [res |-> "KeyNotFound", ref |-> None]
    ELSE [res |-> "TypeMismatch", ref |-> None]

GetMutNested(self, path) ==
    IF path = <<>> THEN [res |-> "Ok", ref |-> Some(self), tree |-> self]
    ELSE LET r == GetMutWalk(self, Split(path, "."))
         IN  [res |-> r.res, ref |-> r.ref, tree |-> self]

(***************************************************************************)
(* Value::set_nested.  Tables inserted for missing segments stay in the    *)
(* tree whatever the walk returns afterwards, as in the code.              *)
(***************************************************************************)
RECURSIVE SetWalkOverwrite(_, _, _)
\* Mutant: a non-Table met on the way is replaced by a fresh Table.
SetWalkOverwrite(current, parts, value) ==
    LET cur == IF is_table(current) THEN current ELSE EmptyTable
    IN  IF Len(parts) = 1
        THEN [res |-> "Ok", tree |-> Table(MapInsert(cur.t, Head(parts), value))]
        ELSE LET part == Head(parts)
                 entry == IF part \in DOMAIN cur.t THEN cur.t[part] ELSE EmptyTable
                 r == SetWalkOverwrite(entry, Tail(parts), value)
             IN  [res |-> r.res, tree |-> Table(MapInsert(cur.t, part, r.tree))]

RECURSIVE SetWalk(_, _, _)
SetWalk(current, parts, value) ==
    IF Len(parts) = 1
    THEN IF is_table(current)
         THEN [res |-> "Ok", tree |-> Table(MapInsert(current.t, Head(parts), value))]
         ELSE [res |-> "TypeMismatch", tree |-> current]
    ELSE IF is_table(current)
         THEN LET part == Head(parts)
                  entry == IF part \in DOMAIN current.t
                           THEN current.t[part] ELSE EmptyTable
                  r == SetWalk(entry, Tail(parts), value)
              IN  [res |-> r.res, tree |-> Table(MapInsert(current.t, part, r.tree))]
         ELSE [res |-> "TypeMismatch", tree |-> current]

SetNested(self, path, value) ==
    IF path = <<>> THEN [res |-> "KeyNotFound", tree |-> self]
    ELSE SetWalk(self, Split(path, "."), value)

(***************************************************************************)
(* Value::remove.  The result is res, the removed value (out) and the      *)
(* tree afterwards.                                                        *)
(***************************************************************************)
RECURSIVE RemoveWalkLenient(_, _)
\* Mutant: a missing non-final segment is reported as Ok(None), not as an error.
RemoveWalkLenient(current, parts) ==
    IF is_table(current)
    THEN IF Len(parts) = 1
         THEN [res |-> "Ok",
               out |-> IF Head(parts) \in DOMAIN current.t
                       THEN Some(current.t[Head(parts)]) ELSE None,
               tree |-> Table(MapRemove(current.t, Head(parts)))]
         ELSE IF Head(parts) \in DOMAIN current.t
              THEN LET r == RemoveWalkLenient(current.t[Head(parts)], Tail(parts))
                   IN  [res |-> r.res, out |-> r.out,
                        tree |-> Table(MapInsert(current.t, Head(parts), r.tree))]
              ELSE [res |-> "Ok", out |-> None, tree |-> current]
    ELSE [res |-> "TypeMismatch", out |-> None, tree |-> current]

RECURSIVE RemoveWalk(_, _)
RemoveWalk(current, parts) ==
    IF Len(parts) = 1
    THEN IF is_table(current)
         THEN [res |-> "Ok",
               out |-> IF Head(parts) \in DOMAIN current.t
                       THEN Some(current.t[Head(parts)]) ELSE None,
               tree |-> Table(MapRemove(current.t, Head(parts)))]
         ELSE [res |-> "TypeMismatch", out |-> None, tree |-> current]
    ELSE IF is_table(current)
         THEN IF Head(parts) \in DOMAIN current.t
              THEN LET r == RemoveWalk(current.t[Head(parts)], Tail(parts))
                   IN  [res |-> r.res, out |-> r.out,
                        tree |-> Table(MapInsert(current.t, Head(parts), r.tree))]
              ELSE [res |-> "KeyNotFound", out |-> None, tree |-> current]
         ELSE [res |-> "TypeMismatch", out |-> None, tree |-> current]

Remove(self, path) ==
    IF path = <<>> THEN [res |-> "Ok", out |-> Some(self), tree |-> Null]
    ELSE RemoveWalk(self, Split(path, "."))

(***************************************************************************)
(* Config::merge_value                                                     *)
(***************************************************************************)
\* Mutant: other replaces self whatever the two are.
MergeValueReplace(self, other) == other

\* Mutant: a Table of other replaces self's Table at the same key instead of merging into it.
MergeValueShallow(self, other) ==
    IF is_table(self) /\ is_table(other)
    THEN Table([k \in (DOMAIN self.t) \cup (DOMAIN other.t) |->
                 IF k \in DOMAIN other.t THEN other.t[k] ELSE self.t[k]])
    ELSE other

RECURSIVE MergeValue(_, _)
MergeValue(self, other) ==
    IF is_table(self) /\ is_table(other)
    THEN Table([k \in (DOMAIN self.t) \cup (DOMAIN other.t) |->
                 IF k \notin DOMAIN other.t THEN self.t[k]
                 ELSE IF k \notin DOMAIN self.t THEN other.t[k]
                 ELSE IF is_table(self.t[k]) /\ is_table(other.t[k])
                      THEN MergeValue(self.t[k], other.t[k])
                      ELSE other.t[k]])
    ELSE other


(***************************************************************************)
(* Text: characters, their UTF-8 width and byte order, slices by byte       *)
(* offset (str indexing), trim, lower case, number parsing and printing.   *)
(***************************************************************************)
\* Option<char>::None
NoChar == ""

LowerCase == <<"a", "b", "c", "d", "e", "f", "g", "h", "i", "j", "k", "l", "m",
               "n", "o", "p", "q", "r", "s", "t", "u", "v", "w", "x", "y", "z">>
UpperCase == <<"A", "B", "C", "D", "E", "F", "G", "H", "I", "J", "K", "L", "M",
               "N", "O", "P", "Q", "R", "S", "T", "U", "V", "W", "X", "Y", "Z">>
Digits == <<"0", "1", "2", "3", "4", "5", "6", "7", "8", "9">>

\* The letter e with an acute accent (U+00E9): one character, two bytes in UTF-8.
EAcute == "U+00E9"

\* The characters of the model in the order of their UTF-8 encoding.
Chars ==
    <<"\t", "\n", "\r", " ", "!", "\"", "#", "$", "'", "(", ")", "+", ",", "-",
      ".", "/">> \o Digits \o <<":", ";", "<", "=", ">", "?", "@">> \o UpperCase
    \o <<"[", "\\", "]", "_">> \o LowerCase \o <<"{", "}", EAcute>>

Range(seq) == {seq[i] : i \in DOMAIN seq}
IndexOf(seq, c) == CHOOSE i \in DOMAIN seq : seq[i] = c

\* char::len_utf8
Utf8Len(c) == IF c = EAcute THEN 2 ELSE 1

\* char::is_alphanumeric, char::is_ascii_digit, char::is_whitespace
IsAlphanumeric(c) == c \in Range(LowerCase) \cup Range(UpperCase) \cup Range(Digits) \cup {EAcute}
IsDigit(c) == c \in Range(Digits)
IsWhitespace(c) == c \in {" ", "\t", "\n", "\r"}

RECURSIVE ByteLen(_)
\* str::len: the length in bytes
ByteLen(s) == IF s = <<>> THEN 0 ELSE Utf8Len(Head(s)) + ByteLen(Tail(s))

\* str::is_char_boundary
IsCharBoundary(s, b) == \E k \in 0..Len(s) : ByteLen(SubSeq(s, 1, k)) = b

\* &s[from..to]: Some(slice), or None where the index expression panics.
ByteSlice(s, from, to) ==
    IF from <= to /\ IsCharBoundary(s, from) /\ IsCharBoundary(s, to)
    THEN LET i == CHOOSE k \in 0..Len(s) : ByteLen(SubSeq(s, 1, k)) = from
             j == CHOOSE k \in 0..Len(s) : ByteLen(SubSeq(s, 1, k)) = to
         IN  Some(SubSeq(s, i + 1, j))
    ELSE None

RECURSIVE TrimStart(_)
TrimStart(s) == IF s # <<>> /\ IsWhitespace(Head(s)) THEN TrimStart(Tail(s)) ELSE s

RECURSIVE TrimEnd(_)
TrimEnd(s) ==
    IF s # <<>> /\ IsWhitespace(s[Len(s)]) THEN TrimEnd(SubSeq(s, 1, Len(s) - 1)) ELSE s

Trim(s) == TrimEnd(TrimStart(s))

\* str::to_lowercase
ToLowercase(s) ==
    [i \in DOMAIN s |-> IF s[i] \in Range(UpperCase)
                        THEN LowerCase[IndexOf(UpperCase, s[i])] ELSE s[i]]

\* str::contains(char), str::contains(&str), str::starts_with, str::ends_with
ContainsChar(s, c) == \E i \in DOMAIN s : s[i] = c
Contains(s, pat) == \E i \in 0..(Len(s) - Len(pat)) : SubSeq(s, i + 1, i + Len(pat)) = pat
StartsWith(s, pat) == Len(pat) <= Len(s) /\ SubSeq(s, 1, Len(pat)) = pat
EndsWith(s, pat) == Len(pat) <= Len(s) /\ SubSeq(s, Len(s) - Len(pat) + 1, Len(s)) = pat

RECURSIVE DigitsValue(_)
\* The number a sequence of decimal digits denotes.
DigitsValue(ds) ==
    IF ds = <<>> THEN 0
    ELSE 10 * DigitsValue(SubSeq(ds, 1, Len(ds) - 1)) + (IndexOf(Digits, ds[Len(ds)]) - 1)

AllDigits(s) == \A i \in DOMAIN s : IsDigit(s[i])

\* s without a leading sign
Unsigned(s) == IF s # <<>> /\ Head(s) \in {"+", "-"} THEN Tail(s) ELSE s
Sign(s) == IF s # <<>> /\ Head(s) = "-" THEN -1 ELSE 1

\* str::parse::<i64>: an optional sign and at least one digit.  (No text of the
\* model is long enough to leave the range of i64.)
ParseI64(s) ==
    IF Unsigned(s) # <<>> /\ AllDigits(Unsigned(s))
    THEN Some(Sign(s) * DigitsValue(Unsigned(s)))
    ELSE None

RECURSIVE NormFloat(_, _)
\* The float mant / 10^frac without trailing zeros in its fraction.
NormFloat(mant, frac) ==
    IF mant = 0 THEN Float(0, 0)
    ELSE IF frac > 0 /\ mant % 10 = 0 THEN NormFloat(mant \div 10, frac - 1)
    ELSE Float(mant, frac)

\* str::parse::<f64>: an optional sign, then inf, infinity or nan in any case,
\* or digits with at most one '.' and at least one digit.  (The exponent form
\* is left out: see the alphabets of the inputs.)
ParseF64(s) ==
    LET u == Unsigned(s)
        parts == Split(u, ".")
    IN  IF ToLowercase(u) \in {<<"i", "n", "f">>, <<"i", "n", "f", "i", "n", "i", "t", "y">>}
        THEN Some([tag |-> "float", special |-> IF Sign(s) < 0 THEN "-inf" ELSE "inf"])
        ELSE IF ToLowercase(u) = <<"n", "a", "n">>
        THEN Some([tag |-> "float", special |-> "NaN"])
        ELSE IF /\ Len(parts) \in {1, 2}
                /\ \A i \in DOMAIN parts : AllDigits(parts[i])
                /\ \E i \in DOMAIN parts : parts[i] # <<>>
        THEN LET fracDigits == IF Len(parts) = 2 THEN parts[2] ELSE <<>>
             IN  Some(NormFloat(Sign(s) * DigitsValue(parts[1] \o fracDigits),
                                Len(fracDigits)))
        ELSE None

RECURSIVE NatToText(_)
NatToText(n) ==
    IF n < 10 THEN <<Digits[n + 1]>> ELSE NatToText(n \div 10) \o <<Digits[(n % 10) + 1]>>

\* i64::to_string
IntToText(i) == IF i < 0 THEN <<"-">> \o NatToText(-i) ELSE NatToText(i)

RECURSIVE Pow10(_)
Pow10(n) == IF n = 0 THEN 1 ELSE 10 * Pow10(n - 1)

RECURSIVE PadFrac(_, _)
\* The digits of n, zero-padded on the left to width w.
PadFrac(n, w) == IF Len(NatToText(n)) >= w THEN NatToText(n) ELSE <<"0">> \o PadFrac(n, w - 1)

\* f64::to_string (Display): the shortest decimal, without ".0" for a whole number.
FloatToText(f) ==
    IF "special" \in DOMAIN f THEN
        (IF f.special = "NaN" THEN <<"N", "a", "N">>
         ELSE IF f.special = "inf" THEN <<"i", "n", "f">> ELSE <<"-", "i", "n", "f">>)
    ELSE LET abs == IF f.mant < 0 THEN -f.mant ELSE f.mant
             sign == IF f.mant < 0 THEN <<"-">> ELSE <<>>
         IN  IF f.frac = 0 THEN sign \o NatToText(abs)
             ELSE sign \o NatToText(abs \div Pow10(f.frac)) \o <<".">>
                  \o PadFrac(abs % Pow10(f.frac), f.frac)

(***************************************************************************)
(* The CONF parser (parsers/conf.rs).  The parser state p is the record    *)
(* [pos, line, column]; pos counts characters in peek and advance, and is  *)
(* compared with the byte length and used as a byte offset in slices, as   *)
(* in the code.  A result is [kind |-> "Ok", ...], [kind |-> "Err", line,  *)
(* column] or [kind |-> "Panic"].                                          *)
(***************************************************************************)
ParseErr(p) == [kind |-> "Err", line |-> p.line, column |-> p.column]
Panic == [kind |-> "Panic"]

ConfNew == [pos |-> 0, line |-> 1, column |-> 1]

\* ConfParser::peek: input.chars().nth(position)
ConfPeek(in, p) == IF p.pos < Len(in) THEN in[p.pos + 1] ELSE NoChar

\* ConfParser::advance
ConfAdvance(in, p) ==
    IF ConfPeek(in, p) = NoChar THEN p
    ELSE IF ConfPeek(in, p) = "\n"
         THEN [pos |-> p.pos + 1, line |-> p.line + 1, column |-> 1]
         ELSE [pos |-> p.pos + 1, line |-> p.line, column |-> p.column + 1]

\* ConfParser::is_at_end: position >= input.len()
ConfIsAtEnd(in, p) == p.pos >= ByteLen(in)

\* ConfParser::expect: the error carries the position after the advance.
ConfExpect(in, p, expected) ==
    IF ConfPeek(in, p) = expected
    THEN [kind |-> "Ok", p |-> ConfAdvance(in, p)]
    ELSE ParseErr(ConfAdvance(in, p))

RECURSIVE ConfScanUntil(_, _, _)
\* The loops `while let Some(ch) = self.peek() { if <ch in stops> { break } self.advance() }`.
ConfScanUntil(in, p, stops) ==
    IF ConfPeek(in, p) = NoChar \/ ConfPeek(in, p) \in stops THEN p
    ELSE ConfScanUntil(in, ConfAdvance(in, p), stops)

RECURSIVE ConfSkipWhitespace(_, _)
ConfSkipWhitespace(in, p) ==
    IF ConfPeek(in, p) \in {" ", "\t"} THEN ConfSkipWhitespace(in, ConfAdvance(in, p)) ELSE p

RECURSIVE ConfSkipWhitespaceAndComments(_, _)
ConfSkipWhitespaceAndComments(in, p) ==
    LET q == ConfSkipWhitespace(in, p)
    IN  IF ConfPeek(in, q) = "#"
        THEN \* the comment, and the line break that ends it
             LET e == ConfScanUntil(in, q, {"\n"})
             IN  ConfSkipWhitespaceAndComments(in, ConfAdvance(in, e))
        ELSE IF ConfPeek(in, q) \in {"\n", "\r"}
        THEN ConfSkipWhitespaceAndComments(in, ConfAdvance(in, q))
        ELSE q

\* ConfParser::parse_section_header
ConfParseSectionHeader(in, p) ==
    LET open == ConfExpect(in, p, "[")
    IN  IF open.kind # "Ok" THEN open
        ELSE LET start == open.p.pos
                 e == ConfScanUntil(in, open.p, {"]", "\n"})
             IN  IF ConfPeek(in, e) = "\n" THEN ParseErr(e)
                 ELSE LET name == ByteSlice(in, start, e.pos)
                          close == ConfExpect(in, e, "]")
                      IN  IF ~name.some THEN Panic
                          ELSE IF close.kind # "Ok" THEN close
                          ELSE [kind |-> "Ok", p |-> close.p, name |-> Trim(name.v)]

RECURSIVE ConfScanKey(_, _)
ConfScanKey(in, p) ==
    IF ConfPeek(in, p) # NoChar /\
       (IsAlphanumeric(ConfPeek(in, p)) \/ ConfPeek(in, p) \in {"_", "-", "."})
    THEN ConfScanKey(in, ConfAdvance(in, p))
    ELSE p

\* ConfParser::parse_key
ConfParseKey(in, p) ==
    LET e == ConfScanKey(in, p)
    IN  IF e.pos = p.pos THEN ParseErr(e)
        ELSE LET key == ByteSlice(in, p.pos, e.pos)
             IN  IF ~key.some THEN Panic
                 ELSE [kind |-> "Ok", p |-> e, key |-> key.v]

\* ConfParser::parse_simple_value
ConfParseSimpleValue(text) ==
    IF ParseI64(text).some THEN Integer(ParseI64(text).v)
    ELSE IF ParseF64(text).some THEN ParseF64(text).v
    ELSE String(text)

\* The pieces of raw_value.split([' ', ',']), trimmed, without the empty ones.
RECURSIVE ConfSplitItems(_, _)
ConfSplitItems(s, acc) ==
    IF s = <<>> THEN (IF Trim(acc) = <<>> THEN <<>> ELSE <<Trim(acc)>>)
    ELSE IF Head(s) \in {" ", ","}
         THEN (IF Trim(acc) = <<>> THEN <<>> ELSE <<Trim(acc)>>)
              \o ConfSplitItems(Tail(s), <<>>)
         ELSE ConfSplitItems(Tail(s), Append(acc, Head(s)))

\* The typing of the trimmed text of an unquoted value (parse_unquoted_value
\* after the slice).
ConfTypeUnquoted(raw) ==
    LET lower == ToLowercase(raw)
        items == ConfSplitItems(raw, <<>>)
    IN  IF raw = <<>> THEN Null
        ELSE IF lower \in {<<"t", "r", "u", "e">>, <<"y", "e", "s">>, <<"o", "n">>}
        THEN Bool(TRUE)
        ELSE IF lower \in {<<"f", "a", "l", "s", "e">>, <<"n", "o">>, <<"o", "f", "f">>}
        THEN Bool(FALSE)
        ELSE IF lower \in {<<"n", "u", "l", "l">>, <<"n", "i", "l">>}
        THEN Null
        ELSE IF (ContainsChar(raw, " ") \/ ContainsChar(raw, ",")) /\ Len(items) > 1
        THEN Array([i \in DOMAIN items |-> ConfParseSimpleValue(items[i])])
        ELSE ConfParseSimpleValue(raw)

\* ConfParser::parse_unquoted_value
ConfParseUnquotedValue(in, p) ==
    LET e == ConfScanUntil(in, p, {"\n", "\r", "#"})
        raw == ByteSlice(in, p.pos, e.pos)
    IN  IF ~raw.some THEN Panic
        ELSE [kind |-> "Ok", p |-> e, value |-> ConfTypeUnquoted(Trim(raw.v))]

RECURSIVE ConfQuotedLoop(_, _, _)
\* The loop of parse_quoted_string; acc is the text read so far.
ConfQuotedLoop(in, p, acc) ==
    LET ch == ConfPeek(in, p)
    IN  IF ch = NoChar \/ ch = "\"" THEN [kind |-> "Ok", p |-> p, text |-> acc]
        ELSE IF ch = "\\"
        THEN LET q == ConfAdvance(in, p)
                 esc == ConfPeek(in, q)
             IN  IF esc = NoChar THEN ParseErr(q)
                 ELSE ConfQuotedLoop(in, ConfAdvance(in, q),
                          acc \o (CASE esc = "n" -> <<"\n">>
                                    [] esc = "t" -> <<"\t">>
                                    [] esc = "r" -> <<"\r">>
                                    [] esc = "\\" -> <<"\\">>
                                    [] esc = "\"" -> <<"\"">>
                                    [] OTHER -> <<"\\", esc>>))
        ELSE ConfQuotedLoop(in, ConfAdvance(in, p), Append(acc, ch))

\* ConfParser::parse_quoted_string
ConfParseQuotedString(in, p) ==
    LET open == ConfExpect(in, p, "\"")
    IN  IF open.kind # "Ok" THEN open
        ELSE LET body == ConfQuotedLoop(in, open.p, <<>>)
             IN  IF body.kind # "Ok" THEN body
                 ELSE LET close == ConfExpect(in, body.p, "\"")
                      IN  IF close.kind # "Ok" THEN close
                          ELSE [kind |-> "Ok", p |-> close.p, value |-> String(body.text)]

\* ConfParser::parse_single_quoted_string
ConfParseSingleQuotedString(in, p) ==
    LET open == ConfExpect(in, p, "'")
    IN  IF open.kind # "Ok" THEN open
        ELSE LET e == ConfScanUntil(in, open.p, {"'"})
                 content == ByteSlice(in, open.p.pos, e.pos)
                 close == ConfExpect(in, e, "'")
             IN  IF ~content.some THEN Panic
                 ELSE IF close.kind # "Ok" THEN close
                 ELSE [kind |-> "Ok", p |-> close.p, value |-> String(content.v)]

RECURSIVE ConfParseValue(_, _)
RECURSIVE ConfArrayLoop(_, _, _)
\* The loop of parse_array; items are the elements read so far.
ConfArrayLoop(in, p, items) ==
    LET item == ConfParseValue(in, p)
    IN  IF item.kind # "Ok" THEN item
        ELSE LET q == ConfSkipWhitespace(in, item.p)
                 all == Append(items, item.value)
             IN  IF ConfPeek(in, q) = ","
                 THEN ConfArrayLoop(in, ConfSkipWhitespace(in, ConfAdvance(in, q)), all)
                 ELSE IF ConfPeek(in, q) = "]"
                 THEN [kind |-> "Ok", p |-> ConfAdvance(in, q), value |-> Array(all)]
                 ELSE ParseErr(q)

\* ConfParser::parse_array
ConfParseArray(in, p) ==
    LET open == ConfExpect(in, p, "[")
    IN  IF open.kind # "Ok" THEN open
        ELSE LET q == ConfSkipWhitespace(in, open.p)
             IN  IF ConfPeek(in, q) = "]"
                 THEN [kind |-> "Ok", p |-> ConfAdvance(in, q), value |-> Array(<<>>)]
                 ELSE ConfArrayLoop(in, q, <<>>)

\* ConfParser::parse_value
ConfParseValue(in, p) ==
    LET q == ConfSkipWhitespace(in, p)
    IN  IF ConfPeek(in, q) = "\"" THEN ConfParseQuotedString(in, q)
        ELSE IF ConfPeek(in, q) = "'" THEN ConfParseSingleQuotedString(in, q)
        ELSE IF ConfPeek(in, q) = "[" THEN ConfParseArray(in, q)
        ELSE ConfParseUnquotedValue(in, q)

\* ConfParser::parse_key_value
ConfParseKeyValue(in, p) ==
    LET key == ConfParseKey(in, p)
    IN  IF key.kind # "Ok" THEN key
        ELSE LET eq == ConfExpect(in, ConfSkipWhitespace(in, key.p), "=")
             IN  IF eq.kind # "Ok" THEN eq
                 ELSE LET value == ConfParseValue(in, ConfSkipWhitespace(in, eq.p))
                      IN  IF value.kind # "Ok" THEN value
                          ELSE [kind |-> "Ok", p |-> value.p, key |-> key.key,
                                value |-> value.value]

\* The match on current_section in ConfParser::parse: where a pair is stored.
ConfStore(root, section, key, value) ==
    IF section.some
    THEN LET table == IF section.v \in DOMAIN root THEN root[section.v] ELSE EmptyTable
         IN  IF is_table(table)
             THEN MapInsert(root, section.v, Table(MapInsert(table.t, key, value)))
             ELSE root
    ELSE MapInsert(root, key, value)

RECURSIVE ConfParseLoop(_, _, _, _)
\* The loop of ConfParser::parse.
ConfParseLoop(in, p, root, section) ==
    IF ConfIsAtEnd(in, p) THEN [kind |-> "Ok", value |-> Table(root)]
    ELSE LET q == ConfSkipWhitespaceAndComments(in, p)
         IN  IF ConfIsAtEnd(in, q) THEN [kind |-> "Ok", value |-> Table(root)]
             ELSE IF ConfPeek(in, q) = "["
             THEN LET header == ConfParseSectionHeader(in, q)
                  IN  IF header.kind # "Ok" THEN header
                      ELSE ConfParseLoop(in, header.p, root, Some(header.name))
             ELSE LET kv == ConfParseKeyValue(in, q)
                  IN  IF kv.kind # "Ok" THEN kv
                      ELSE ConfParseLoop(in, kv.p,
                                         ConfStore(root, section, kv.key, kv.value), section)

\* conf::parse
ConfParse(in) == ConfParseLoop(in, ConfNew, EmptyMap, None)

(***************************************************************************)
(* The CONF serializer (config.rs).  A result is [kind |-> "Ok", text] or  *)
(* [kind |-> "Err"] (a TypeMismatch error).                                *)
(***************************************************************************)
RECURSIVE TextLess(_, _)
\* The order of String, which is the order of iteration of a BTreeMap.
TextLess(a, b) ==
    IF b = <<>> THEN FALSE
    ELSE IF a = <<>> THEN TRUE
    ELSE IF Head(a) = Head(b) THEN TextLess(Tail(a), Tail(b))
    ELSE IndexOf(Chars, Head(a)) < IndexOf(Chars, Head(b))

RECURSIVE SortedKeys(_)
\* The keys of a BTreeMap in the order in which it is iterated.
SortedKeys(keys) ==
    IF keys = {} THEN <<>>
    ELSE LET first == CHOOSE k \in keys : \A o \in keys \ {k} : TextLess(k, o)
         IN  <<first>> \o SortedKeys(keys \ {first})

\* str::replace('"', "\\\"")
EscapeQuotes(s) ==
    IF s = <<>> THEN <<>>
    ELSE LET piece(c) == IF c = "\"" THEN <<"\\", "\"">> ELSE <<c>>
             F[i \in 0..Len(s)] == IF i = 0 THEN <<>> ELSE F[i - 1] \o piece(s[i])
         IN  F[Len(s)]

RECURSIVE FormatConfValue(_)
RECURSIVE FormatConfItems(_)
\* The formatted elements of an array joined by " "; the first error wins.
FormatConfItems(items) ==
    IF items = <<>> THEN [kind |-> "Ok", text |-> <<>>]
    ELSE LET first == FormatConfValue(Head(items))
             rest == FormatConfItems(Tail(items))
         IN  IF first.kind # "Ok" THEN first
             ELSE IF rest.kind # "Ok" THEN rest
             ELSE IF Tail(items) = <<>> THEN first
             ELSE [kind |-> "Ok", text |-> first.text \o <<" ">> \o rest.text]

\* Config::format_conf_value
FormatConfValue(value) ==
    CASE value.tag = "null" -> [kind |-> "Ok", text |-> <<"n", "u", "l", "l">>]
      [] value.tag = "bool" ->
            [kind |-> "Ok", text |-> IF value.b THEN <<"t", "r", "u", "e">>
                                     ELSE <<"f", "a", "l", "s", "e">>]
      [] value.tag = "integer" -> [kind |-> "Ok", text |-> IntToText(value.i)]
      [] value.tag = "float" -> [kind |-> "Ok", text |-> FloatToText(value)]
      [] value.tag = "string" ->
            IF ContainsChar(value.s, " ") \/ ContainsChar(value.s, "\t")
               \/ ContainsChar(value.s, "\n")
            THEN [kind |-> "Ok", text |-> <<"\"">> \o EscapeQuotes(value.s) \o <<"\"">>]
            ELSE [kind |-> "Ok", text |-> value.s]
      [] value.tag = "array" -> FormatConfItems(value.items)
      [] value.tag = "table" -> [kind |-> "Err"]

RECURSIVE WriteConfTable(_, _)
RECURSIVE WriteConfPairs(_, _)
\* First pass of write_conf_table: the keys whose value is no Table.
WriteConfPairs(table, keys) ==
    IF keys = <<>> THEN [kind |-> "Ok", text |-> <<>>]
    ELSE IF is_table(table[Head(keys)]) THEN WriteConfPairs(table, Tail(keys))
    ELSE LET formatted == FormatConfValue(table[Head(keys)])
             rest == WriteConfPairs(table, Tail(keys))
         IN  IF formatted.kind # "Ok" THEN formatted
             ELSE IF rest.kind # "Ok" THEN rest
             ELSE [kind |-> "Ok",
                   text |-> Head(keys) \o <<" ", "=", " ">> \o formatted.text
                            \o <<"\n">> \o rest.text]

RECURSIVE WriteConfSections(_, _, _)
\* Second pass of write_conf_table: the keys whose value is a Table.
WriteConfSections(table, keys, section_prefix) ==
    IF keys = <<>> THEN [kind |-> "Ok", text |-> <<>>]
    ELSE IF ~is_table(table[Head(keys)])
    THEN WriteConfSections(table, Tail(keys), section_prefix)
    ELSE LET section_name == IF section_prefix = <<>> THEN Head(keys)
                             ELSE section_prefix \o <<".">> \o Head(keys)
             nested == WriteConfTable(table[Head(keys)].t, section_name)
             rest == WriteConfSections(table, Tail(keys), section_prefix)
         IN  IF nested.kind # "Ok" THEN nested
             ELSE IF rest.kind # "Ok" THEN rest
             ELSE [kind |-> "Ok",
                   text |-> <<"\n", "[">> \o section_name \o <<"]", "\n">>
                            \o nested.text \o rest.text]

\* Config::write_conf_table
WriteConfTable(table, section_prefix) ==
    LET keys == SortedKeys(DOMAIN table)
        pairs == WriteConfPairs(table, keys)
        sections == WriteConfSections(table, keys, section_prefix)
    IN  IF pairs.kind # "Ok" THEN pairs
        ELSE IF sections.kind # "Ok" THEN sections
        ELSE [kind |-> "Ok", text |-> pairs.text \o sections.text]

\* Config::serialize_as_conf
SerializeAsConf(tree) ==
    IF is_table(tree) THEN WriteConfTable(tree.t, <<>>)
    ELSE [kind |-> "Ok", text |-> <<>>]

(***************************************************************************)
(* The INI parser (parsers/ini_parser.rs).  The parser state p is the      *)
(* record [pos, line]; pos counts characters in current_char and advance   *)
(* and is compared with the byte length and used as a byte offset in       *)
(* slices, as in the code.  NoChar stands for the '\0' that current_char   *)
(* returns past the last character.  A result is [kind |-> "Ok", ...],     *)
(* [kind |-> "Err", line, column], [kind |-> "Panic"] or, for a loop that  *)
(* never ends, [kind |-> "Hang"].                                          *)
(***************************************************************************)
Hang == [kind |-> "Hang"]

\* IniParser::new
IniNew == [pos |-> 0, line |-> 1]

\* IniParser::current_char
IniCurrentChar(in, p) == IF p.pos < Len(in) THEN in[p.pos + 1] ELSE NoChar

\* IniParser::advance
IniAdvance(in, p) == IF p.pos < ByteLen(in) THEN [p EXCEPT !.pos = @ + 1] ELSE p

\* Error::Parse of the INI parser: the column is always 1.
IniErr(p) == [kind |-> "Err", line |-> p.line, column |-> 1]

RECURSIVE IniScanUntil(_, _, _)
\* Advance until the current character is one of stops or '\0'.
IniScanUntil(in, p, stops) ==
    IF IniCurrentChar(in, p) \in stops \cup {NoChar} THEN p
    ELSE IniScanUntil(in, IniAdvance(in, p), stops)

RECURSIVE IniSkipWhitespaceAndComments(_, _)
\* IniParser::skip_whitespace_and_comments
IniSkipWhitespaceAndComments(in, p) ==
    LET ch == IniCurrentChar(in, p)
    IN  IF ch \in {" ", "\t"} THEN IniSkipWhitespaceAndComments(in, IniAdvance(in, p))
        ELSE IF ch \in {";", "#"}
        THEN LET q == IniScanUntil(in, p, {"\n"})
             IN  IF IniCurrentChar(in, q) = NoChar THEN q
                 ELSE IniSkipWhitespaceAndComments(in, q)
        ELSE IF ch \in {"\n", "\r"}
        THEN IniSkipWhitespaceAndComments(in, [IniAdvance(in, p) EXCEPT !.line = @ + 1])
        ELSE p

\* IniParser::parse_section: [kind |-> "Ok", p, name].
IniParseSection(in, p) ==
    LET start == IniAdvance(in, p)
        e == IniScanUntil(in, start, {"]", "\n"})
        slice == ByteSlice(in, start.pos, e.pos)
    IN  IF IniCurrentChar(in, e) # "]" THEN IniErr(e)
        ELSE IF ~slice.some THEN Panic
        ELSE IF Trim(slice.v) = <<>> THEN IniErr(e)
        ELSE [kind |-> "Ok", p |-> IniAdvance(in, e), name |-> Trim(slice.v)]

\* IniParser::parse_key: [kind |-> "Ok", p, key].
IniParseKey(in, p) ==
    LET e == IniScanUntil(in, p, {"=", ":", "\n", "\r", ";", "#"})
        slice == ByteSlice(in, p.pos, e.pos)
    IN  IF ~slice.some THEN Panic
        ELSE [kind |-> "Ok", p |-> e, key |-> Trim(slice.v)]

RECURSIVE IniProcessEscapeSequences(_)
\* IniParser::process_escape_sequences
IniProcessEscapeSequences(value) ==
    IF value = <<>> THEN <<>>
    ELSE IF Head(value) = "\\" /\ Len(value) >= 2
            /\ value[2] \in {"n", "t", "r", "\\", "\"", "'"}
    THEN << CASE value[2] = "n" -> "\n"
              [] value[2] = "t" -> "\t"
              [] value[2] = "r" -> "\r"
              [] OTHER -> value[2] >>
         \o IniProcessEscapeSequences(SubSeq(value, 3, Len(value)))
    ELSE <<Head(value)>> \o IniProcessEscapeSequences(Tail(value))

\* IniParser::parse_typed_value
IniParseTypedValue(value) ==
    IF value = <<>> THEN String(<<>>)
    ELSE IF ToLowercase(value) \in {<<"t", "r", "u", "e">>, <<"y", "e", "s">>, <<"o", "n">>, <<"1">>}
    THEN Bool(TRUE)
    ELSE IF ToLowercase(value) \in {<<"f", "a", "l", "s", "e">>, <<"n", "o">>, <<"o", "f", "f">>, <<"0">>}
    THEN Bool(FALSE)
    ELSE IF ParseI64(value).some THEN Integer(ParseI64(value).v)
    ELSE IF ParseF64(value).some THEN ParseF64(value).v
    ELSE String(value)

RECURSIVE IniValueLoop(_, _, _, _, _)
\* The loop of IniParser::parse_value: [p, chars, in_quotes].
IniValueLoop(in, p, chars, in_quotes, quote_char) ==
    IF p.pos >= ByteLen(in) THEN [p |-> p, chars |-> chars, in_quotes |-> in_quotes]
    ELSE LET ch == IniCurrentChar(in, p)
             next == IniAdvance(in, p)
         IN  IF ch \in {"\"", "'"} /\ ~in_quotes
             THEN IniValueLoop(in, next, chars, TRUE, ch)
             ELSE IF ch = "\\" /\ in_quotes
             THEN IF next.pos < ByteLen(in)
                  THEN LET escaped_char == IniCurrentChar(in, next)
                           pushed == CASE escaped_char = "n" -> <<"\n">>
                                       [] escaped_char = "t" -> <<"\t">>
                                       [] escaped_char = "r" -> <<"\r">>
                                       [] escaped_char \in {"\\", "\"", "'"} -> <<escaped_char>>
                                       [] OTHER -> <<"\\", escaped_char>>
                       IN  IniValueLoop(in, IniAdvance(in, next), chars \o pushed,
                                        in_quotes, quote_char)
                  ELSE IniValueLoop(in, next, chars, in_quotes, quote_char)
             ELSE IF in_quotes /\ ch = quote_char
             THEN [p |-> next, chars |-> chars, in_quotes |-> FALSE]
             ELSE IF ch \in {"\n", "\r", NoChar, ";", "#"} /\ ~in_quotes
             THEN [p |-> p, chars |-> chars, in_quotes |-> in_quotes]
             ELSE IniValueLoop(in, next, Append(chars, ch), in_quotes, quote_char)

\* IniParser::parse_value: [p, value].
IniParseValue(in, p) ==
    LET r == IniValueLoop(in, p, <<>>, FALSE, NoChar)
        processed_value == IF r.in_quotes THEN r.chars
                           ELSE IniProcessEscapeSequences(TrimEnd(r.chars))
    IN  [p |-> r.p, value |-> IniParseTypedValue(processed_value)]

\* IniParser::parse_key_value storing every pair under the bare key.
IniParseKeyValue_BareKey(in, p, current_section, result) ==
    LET k == IniParseKey(in, p)
    IN  IF k.kind # "Ok" THEN k
        ELSE IF k.key = <<>> THEN [kind |-> "Ok", p |-> k.p, result |-> result]
        ELSE LET q == IniSkipWhitespaceAndComments(in, k.p)
             IN  IF IniCurrentChar(in, q) \notin {"=", ":"} THEN IniErr(q)
                 ELSE LET v == IniParseValue(in, IniSkipWhitespaceAndComments(
                                                     in, IniAdvance(in, q)))
                      IN  [kind |-> "Ok", p |-> v.p,
                           result |-> MapInsert(result, k.key, v.value)]

\* IniParser::parse_key_value: [kind |-> "Ok", p, result], where the state is
\* the one before when the key is empty.
IniParseKeyValue(in, p, current_section, result) ==
    LET k == IniParseKey(in, p)
    IN  IF k.kind # "Ok" THEN k
        ELSE IF k.key = <<>> THEN [kind |-> "Ok", p |-> k.p, result |-> result]
        ELSE LET q == IniSkipWhitespaceAndComments(in, k.p)
             IN  IF IniCurrentChar(in, q) \notin {"=", ":"} THEN IniErr(q)
                 ELSE LET v == IniParseValue(in, IniSkipWhitespaceAndComments(
                                                     in, IniAdvance(in, q)))
                          full_key == IF current_section.some
                                      THEN current_section.v \o <<".">> \o k.key
                                      ELSE k.key
                      IN  [kind |-> "Ok", p |-> v.p,
                           result |-> MapInsert(result, full_key, v.value)]

RECURSIVE IniParseLoop(_, _, _, _)
\* The loop of IniParser::parse.  An iteration that leaves the whole state as
\* it was is repeated for ever.
IniParseLoop(in, p, current_section, result) ==
    IF p.pos >= ByteLen(in) THEN [kind |-> "Ok", value |-> Table(result)]
    ELSE LET q == IniSkipWhitespaceAndComments(in, p)
         IN  IF q.pos >= ByteLen(in) THEN [kind |-> "Ok", value |-> Table(result)]
             ELSE IF IniCurrentChar(in, q) = "["
             THEN LET sec == IniParseSection(in, q)
                  IN  IF sec.kind # "Ok" THEN sec
                      ELSE IniParseLoop(in, sec.p, Some(sec.name), result)
             ELSE LET kv == IniParseKeyValue(in, q, current_section, result)
                  IN  IF kv.kind # "Ok" THEN kv
                      ELSE IF kv.p = p /\ kv.result = result THEN Hang
                      ELSE IniParseLoop(in, kv.p, current_section, kv.result)

\* ini_parser::parse_ini
IniParse(in) == IniParseLoop(in, IniNew, None, EmptyMap)

(***************************************************************************)
(* The Properties parser (parsers/properties_parser.rs).  The parser state *)
(* p is the record [pos, line, column], with pos used as in the INI parser.*)
(***************************************************************************)
\* PropertiesParser::new
PropNew == [pos |-> 0, line |-> 1, column |-> 1]

\* PropertiesParser::current_char, at_end, advance
PropCurrentChar(in, p) == IF p.pos < Len(in) THEN in[p.pos + 1] ELSE NoChar
PropAtEnd(in, p) == p.pos >= ByteLen(in)
PropAdvance(in, p) ==
    IF PropAtEnd(in, p) THEN p
    ELSE IF PropCurrentChar(in, p) = "\n"
    THEN [pos |-> p.pos + 1, line |-> p.line + 1, column |-> 1]
    ELSE [pos |-> p.pos + 1, line |-> p.line, column |-> p.column + 1]

RECURSIVE PropSkipWhitespace(_, _)
\* PropertiesParser::skip_whitespace
PropSkipWhitespace(in, p) ==
    IF ~PropAtEnd(in, p) /\ PropCurrentChar(in, p) \in {" ", "\t"}
    THEN PropSkipWhitespace(in, PropAdvance(in, p))
    ELSE p

RECURSIVE PropSkipComment(_, _)
\* PropertiesParser::skip_comment
PropSkipComment(in, p) ==
    IF ~PropAtEnd(in, p) /\ PropCurrentChar(in, p) \notin {"\n", "\r"}
    THEN PropSkipComment(in, PropAdvance(in, p))
    ELSE p

\* PropertiesParser::skip_newline
PropSkipNewline(in, p) ==
    LET q == IF ~PropAtEnd(in, p) /\ PropCurrentChar(in, p) = "\r"
             THEN PropAdvance(in, p) ELSE p
    IN  IF ~PropAtEnd(in, q) /\ PropCurrentChar(in, q) = "\n" THEN PropAdvance(in, q) ELSE q

RECURSIVE PropSkipWhitespaceAndComments(_, _)
\* PropertiesParser::skip_whitespace_and_comments
PropSkipWhitespaceAndComments(in, p) ==
    IF PropAtEnd(in, p) THEN p
    ELSE LET ch == PropCurrentChar(in, p)
         IN  IF ch \in {" ", "\t"} THEN PropSkipWhitespaceAndComments(in, PropAdvance(in, p))
             ELSE IF ch \in {"\n", "\r"}
             THEN PropSkipWhitespaceAndComments(in, PropSkipNewline(in, p))
             ELSE IF ch \in {"#", "!"}
             THEN PropSkipWhitespaceAndComments(in, PropSkipComment(in, p))
             ELSE p

\* The digits of base 16 and char::is_ascii_hexdigit.
HexDigits == Digits \o <<"a", "b", "c", "d", "e", "f">>
IsHexDigit(c) == c \in Range(HexDigits) \cup {"A", "B", "C", "D", "E", "F"}
HexValue(c) == IndexOf(HexDigits, ToLowercase(<<c>>)[1]) - 1

\* The grave accent (96), which a string of this language cannot hold.
Grave == "U+0060"

\* The printable characters of ASCII from the space (32) to the tilde (126).
Ascii ==
    <<" ", "!", "\"", "#", "$", "%", "&", "'", "(", ")", "*", "+", ",", "-", ".", "/">>
    \o Digits \o <<":", ";", "<", "=", ">", "?", "@">> \o UpperCase
    \o <<"[", "\\", "]", "^", "_", Grave>> \o LowerCase \o <<"{", "|", "}", "~">>

\* A character that is none of the characters named in this module.
OtherChar == "U+FFFF"

\* char::from_u32: None for a surrogate.
CharFromU32(code) ==
    IF code >= 55296 /\ code <= 57343 THEN None
    ELSE IF code >= 32 /\ code <= 126 THEN Some(Ascii[code - 31])
    ELSE IF code = 9 THEN Some("\t")
    ELSE IF code = 10 THEN Some("\n")
    ELSE IF code = 13 THEN Some("\r")
    ELSE IF code = 233 THEN Some(EAcute)
    ELSE Some(OtherChar)

RECURSIVE PropHexLoop(_, _, _, _)
\* The loop of parse_unicode_escape: [kind |-> "Ok", p, code].
PropHexLoop(in, p, n, code) ==
    IF n = 0 THEN [kind |-> "Ok", p |-> p, code |-> code]
    ELSE IF PropAtEnd(in, p) \/ ~IsHexDigit(PropCurrentChar(in, p))
    THEN [kind |-> "Err", line |-> p.line, column |-> p.column]
    ELSE PropHexLoop(in, PropAdvance(in, p), n - 1,
                     16 * code + HexValue(PropCurrentChar(in, p)))

\* Mutant: a code point of the surrogate range is taken for a character.
PropParseUnicodeEscape_AnyCode(in, p) ==
    LET Char(h, c) == [kind |-> "Ok", p |-> h.p, text |-> <<IF c.some THEN c.v ELSE OtherChar>>]
        Digits4(h) == IF h.kind # "Ok" THEN h ELSE Char(h, CharFromU32(h.code))
    IN  Digits4(PropHexLoop(in, p, 4, 0))

\* PropertiesParser::parse_unicode_escape: [kind |-> "Ok", p, text].
PropParseUnicodeEscape(in, p) ==
    LET Char(h, c) ==
            IF ~c.some THEN [kind |-> "Err", line |-> h.p.line, column |-> h.p.column]
            ELSE [kind |-> "Ok", p |-> h.p, text |-> <<c.v>>]
        Digits4(h) == IF h.kind # "Ok" THEN h ELSE Char(h, CharFromU32(h.code))
    IN  Digits4(PropHexLoop(in, p, 4, 0))

\* PropertiesParser::parse_escape: [kind |-> "Ok", p, text].
PropParseEscape(in, p) ==
    LET Escape(ch, q) ==
            CASE ch = "n" -> [kind |-> "Ok", p |-> q, text |-> <<"\n">>]
              [] ch = "t" -> [kind |-> "Ok", p |-> q, text |-> <<"\t">>]
              [] ch = "r" -> [kind |-> "Ok", p |-> q, text |-> <<"\r">>]
              [] ch = "u" -> PropParseUnicodeEscape(in, q)
              [] OTHER -> [kind |-> "Ok", p |-> q, text |-> <<ch>>]
    IN  Escape(PropCurrentChar(in, p), PropAdvance(in, p))

RECURSIVE PropKeyLoop(_, _, _)
\* The loop of PropertiesParser::parse_key: [kind |-> "Ok", p, key].
PropKeyLoop(in, p, key) ==
    LET Escaped(e) == IF e.kind # "Ok" THEN e ELSE PropKeyLoop(in, e.p, key \o e.text)
        Backslash(q) ==
            IF PropAtEnd(in, q) THEN [kind |-> "Err", line |-> q.line, column |-> q.column]
            ELSE Escaped(PropParseEscape(in, q))
        Char(ch) ==
            IF ch \in {"=", ":"} THEN [kind |-> "Ok", p |-> p, key |-> key]
            ELSE IF ch = "\\" THEN Backslash(PropAdvance(in, p))
            ELSE IF ch \in {"\n", "\r"}
            THEN [kind |-> "Err", line |-> p.line, column |-> p.column]
            ELSE PropKeyLoop(in, PropAdvance(in, p), Append(key, ch))
    IN  IF PropAtEnd(in, p) THEN [kind |-> "Ok", p |-> p, key |-> key]
        ELSE Char(PropCurrentChar(in, p))

\* PropertiesParser::parse_key
PropParseKey(in, p) ==
    LET Key(k) ==
            IF k.kind # "Ok" THEN k
            ELSE IF Trim(k.key) = <<>>
            THEN [kind |-> "Err", line |-> k.p.line, column |-> k.p.column]
            ELSE [kind |-> "Ok", p |-> k.p, key |-> Trim(k.key)]
    IN  Key(PropKeyLoop(in, p, <<>>))

\* PropertiesParser::infer_value_type
PropInferValueType(value) ==
    LET Number(i, f) ==
            IF i.some THEN Integer(i.v) ELSE IF f.some THEN f.v ELSE String(value)
    IN  IF value = <<>> THEN String(<<>>)
        ELSE IF ToLowercase(value) = <<"t", "r", "u", "e">> THEN Bool(TRUE)
        ELSE IF ToLowercase(value) = <<"f", "a", "l", "s", "e">> THEN Bool(FALSE)
        ELSE Number(ParseI64(value), ParseF64(value))

RECURSIVE PropValueLoop_KeepIndent(_, _, _)
\* The loop of parse_value with the next line's leading blanks kept.
PropValueLoop_KeepIndent(in, p, value) ==
    LET Escaped(e) ==
            IF e.kind # "Ok" THEN e ELSE PropValueLoop_KeepIndent(in, e.p, value \o e.text)
        Backslash(q) ==
            IF PropAtEnd(in, q) THEN [kind |-> "Ok", p |-> q, text |-> value]
            ELSE IF PropCurrentChar(in, q) \in {"\n", "\r"}
            THEN PropValueLoop_KeepIndent(in, PropSkipNewline(in, q), value)
            ELSE Escaped(PropParseEscape(in, q))
        Char(ch) ==
            IF ch = "\\" THEN Backslash(PropAdvance(in, p))
            ELSE IF ch \in {"\n", "\r"} THEN [kind |-> "Ok", p |-> p, text |-> value]
            ELSE PropValueLoop_KeepIndent(in, PropAdvance(in, p), Append(value, ch))
    IN  IF PropAtEnd(in, p) THEN [kind |-> "Ok", p |-> p, text |-> value]
        ELSE Char(PropCurrentChar(in, p))

RECURSIVE PropValueLoop(_, _, _)
\* The loop of PropertiesParser::parse_value: [kind |-> "Ok", p, text].
PropValueLoop(in, p, value) ==
    LET Escaped(e) ==
            IF e.kind # "Ok" THEN e ELSE PropValueLoop(in, e.p, value \o e.text)
        Backslash(q) ==
            IF PropAtEnd(in, q) THEN [kind |-> "Ok", p |-> q, text |-> value]
            ELSE IF PropCurrentChar(in, q) \in {"\n", "\r"}
            THEN PropValueLoop(in, PropSkipWhitespace(in, PropSkipNewline(in, q)), value)
            ELSE Escaped(PropParseEscape(in, q))
        Char(ch) ==
            IF ch = "\\" THEN Backslash(PropAdvance(in, p))
            ELSE IF ch \in {"\n", "\r"} THEN [kind |-> "Ok", p |-> p, text |-> value]
            ELSE PropValueLoop(in, PropAdvance(in, p), Append(value, ch))
    IN  IF PropAtEnd(in, p) THEN [kind |-> "Ok", p |-> p, text |-> value]
        ELSE Char(PropCurrentChar(in, p))

\* PropertiesParser::parse_value: [kind |-> "Ok", p, value].
PropParseValue(in, p) ==
    LET Value(v) ==
            IF v.kind # "Ok" THEN v
            ELSE [kind |-> "Ok", p |-> v.p, value |-> PropInferValueType(Trim(v.text))]
    IN  Value(PropValueLoop(in, p, <<>>))

\* PropertiesParser::parse_property: [kind |-> "Ok", p, key, value].
PropParseProperty(in, p) ==
    LET Value(k, v) ==
            IF v.kind # "Ok" THEN v
            ELSE [kind |-> "Ok", p |-> v.p, key |-> k.key, value |-> v.value]
        Separator(k, q) ==
            IF PropCurrentChar(in, q) \notin {"=", ":"}
            THEN [kind |-> "Err", line |-> q.line, column |-> q.column]
            ELSE Value(k, PropParseValue(in, PropSkipWhitespace(in, PropAdvance(in, q))))
        Key(k) == IF k.kind # "Ok" THEN k ELSE Separator(k, PropSkipWhitespace(in, k.p))
    IN  Key(PropParseKey(in, p))

RECURSIVE PropParseLoop(_, _, _)
\* The loop of PropertiesParser::parse.
PropParseLoop(in, p, properties) ==
    LET Property(kv) ==
            IF kv.kind # "Ok" THEN kv
            ELSE PropParseLoop(in, kv.p, MapInsert(properties, kv.key, kv.value))
        Skipped(q) ==
            IF PropAtEnd(in, q) THEN [kind |-> "Ok", value |-> Table(properties)]
            ELSE Property(PropParseProperty(in, q))
    IN  IF PropAtEnd(in, p) THEN [kind |-> "Ok", value |-> Table(properties)]
        ELSE Skipped(PropSkipWhitespaceAndComments(in, p))

\* PropertiesParser::parse
PropParse(in) == PropParseLoop(in, PropNew, EmptyMap)

(***************************************************************************)
(* Content sniffing (parsers/mod.rs).                                      *)
(***************************************************************************)
\* str::lines: the pieces between '\n', each without a trailing '\r', and no
\* last piece for a text that is empty or ends with '\n'.
Lines(content) ==
    LET pieces == Split(content, "\n")
        kept == IF pieces[Len(pieces)] = <<>>
                THEN SubSeq(pieces, 1, Len(pieces) - 1) ELSE pieces
    IN  [i \in DOMAIN kept |->
            IF kept[i] # <<>> /\ kept[i][Len(kept[i])] = "\r"
            THEN SubSeq(kept[i], 1, Len(kept[i]) - 1) ELSE kept[i]]

\* str::matches(char).count()
CountChar(s, c) == Cardinality({i \in DOMAIN s : s[i] = c})

contains_noml_features(content) ==
    \/ Contains(content, <<"e", "n", "v", "(">>)
    \/ Contains(content, <<"i", "n", "c", "l", "u", "d", "e", " ">>)
    \/ Contains(content, <<"$", "{">>)
    \/ Contains(content, <<"@", "s", "i", "z", "e", "(">>)
    \/ Contains(content, <<"@", "d", "u", "r", "a", "t", "i", "o", "n", "(">>)
    \/ Contains(content, <<"@", "u", "r", "l", "(">>)
    \/ Contains(content, <<"@", "i", "p", "(">>)

contains_properties_features(content) ==
    \E n \in DOMAIN Lines(content) :
        LET trimmed == Trim(Lines(content)[n])
        IN  \/ StartsWith(trimmed, <<"!">>)
            \/ Contains(trimmed, <<"\\", "n">>)
            \/ Contains(trimmed, <<"\\", "t">>)
            \/ Contains(trimmed, <<"\\", "u">>)
            \/ /\ ContainsChar(trimmed, ":")
               /\ ~ContainsChar(trimmed, "=")
               /\ ~StartsWith(trimmed, <<"#">>)

\* The test of contains_ini_features for a section header line.
IsIniSectionLine(trimmed) ==
    /\ StartsWith(trimmed, <<"[">>)
    /\ EndsWith(trimmed, <<"]">>)
    /\ ~ContainsChar(trimmed, "=")
    /\ LET section_content == SubSeq(trimmed, 2, Len(trimmed) - 1)
       IN  ~ContainsChar(section_content, "[") /\ ~ContainsChar(section_content, "]")

contains_ini_features(content) ==
    LET lines == Lines(content)
        trimmed(n) == Trim(lines[n])
        in_section(n) == \E m \in 1..(n - 1) : IsIniSectionLine(trimmed(m))
        has_section == \E n \in DOMAIN lines : IsIniSectionLine(trimmed(n))
        has_ini_comment ==
            \E n \in DOMAIN lines :
                ~IsIniSectionLine(trimmed(n)) /\ StartsWith(trimmed(n), <<";">>)
        has_key_value_in_section ==
            \E n \in DOMAIN lines :
                /\ ~IsIniSectionLine(trimmed(n))
                /\ in_section(n)
                /\ (ContainsChar(trimmed(n), "=") \/ ContainsChar(trimmed(n), ":"))
                /\ ~StartsWith(trimmed(n), <<"#">>)
                /\ ~StartsWith(trimmed(n), <<";">>)
    IN  (has_section /\ has_key_value_in_section) \/ has_ini_comment

contains_toml_features(content) ==
    \E n \in DOMAIN Lines(content) :
        LET trimmed == Trim(Lines(content)[n])
        IN  \/ /\ StartsWith(trimmed, <<"[">>)
               /\ EndsWith(trimmed, <<"]">>)
               /\ ~ContainsChar(trimmed, "=")
            \/ (ContainsChar(trimmed, "T") /\ ContainsChar(trimmed, "Z"))

contains_xml_features(content) ==
    LET trimmed == Trim(content)
    IN  \/ StartsWith(trimmed, <<"<", "?", "x", "m", "l">>)
        \/ Contains(trimmed, <<"<", "/">>)
        \/ Contains(trimmed, <<"x", "m", "l", "n", "s">>)
        \/ Contains(trimmed, <<"/", ">">>)
        \/ /\ CountChar(trimmed, "<") > 0
           /\ CountChar(trimmed, ">") > 0
           /\ CountChar(trimmed, "<") <= CountChar(trimmed, ">")

\* The tests of contains_hcl_features for a block: a quoted label before an
\* opening brace, or one of the block keywords at the start of the line.
IsHclBlockLine(trimmed) ==
    \/ (Contains(trimmed, <<" ", "\"">>) /\ Contains(trimmed, <<"\"", " ", "{">>))
    \/ StartsWith(trimmed, <<"v", "a", "r", "i", "a", "b", "l", "e", " ">>)
    \/ StartsWith(trimmed, <<"o", "u", "t", "p", "u", "t", " ">>)
    \/ StartsWith(trimmed, <<"r", "e", "s", "o", "u", "r", "c", "e", " ">>)
    \/ StartsWith(trimmed, <<"d", "a", "t", "a", " ">>)
    \/ StartsWith(trimmed, <<"p", "r", "o", "v", "i", "d", "e", "r", " ">>)
    \/ StartsWith(trimmed, <<"t", "e", "r", "r", "a", "f", "o", "r", "m", " ">>)
    \/ StartsWith(trimmed, <<"m", "o", "d", "u", "l", "e", " ">>)

contains_hcl_features(content) ==
    \E n \in DOMAIN Lines(content) :
        LET trimmed == Trim(Lines(content)[n])
        IN  \/ IsHclBlockLine(trimmed)
            \/ (Contains(trimmed, <<"$", "{">>) /\ Contains(trimmed, <<"}">>))

\* Mutant: the Properties rule is tried before the INI rule.
detect_format_properties_first(content) ==
    LET trimmed == Trim(content)
    IN  IF StartsWith(trimmed, <<"<">>) /\ contains_xml_features(content) THEN "xml"
        ELSE IF StartsWith(trimmed, <<"{">>) \/ StartsWith(trimmed, <<"[">>) THEN "json"
        ELSE IF contains_hcl_features(content) THEN "hcl"
        ELSE IF contains_noml_features(content) THEN "noml"
        ELSE IF contains_properties_features(content) THEN "properties"
        ELSE IF contains_ini_features(content) THEN "ini"
        ELSE IF contains_toml_features(content) THEN "toml"
        ELSE "conf"

detect_format(content) ==
    LET trimmed == Trim(content)
    IN  IF StartsWith(trimmed, <<"<">>) /\ contains_xml_features(content) THEN "xml"
        ELSE IF StartsWith(trimmed, <<"{">>) \/ StartsWith(trimmed, <<"[">>) THEN "json"
        ELSE IF contains_hcl_features(content) THEN "hcl"
        ELSE IF contains_noml_features(content) THEN "noml"
        ELSE IF contains_ini_features(content) THEN "ini"
        ELSE IF contains_properties_features(content) THEN "properties"
        ELSE IF contains_toml_features(content) THEN "toml"
        ELSE "conf"

(***************************************************************************)
(* The choice of the parser (parsers/mod.rs).  A format is the name that   *)
(* the code passes around as &str; features is the set of the optional     *)
(* parsers compiled into the build.                                        *)
(***************************************************************************)
\* The optional parsers, each behind the cargo feature of its name.
Features == {"json", "xml", "hcl"}

\* Error::feature_not_enabled(feature)
FeatureNotEnabled(feature) == [kind |-> "Err", feature |-> feature]

\* The results of json_parser::parse, xml_parser::parse_xml and
\* hcl_parser::parse_hcl, which are not described here: an error or a tree.
OptionalParserResults ==
    { [kind |-> "Err", line |-> 1, column |-> 1], [kind |-> "Ok", value |-> EmptyTable],
      [kind |-> "Ok", value |-> Table(<<"a">> :> Integer(1))] }

\* parsers::parse_string: the set of its possible results.  The arm "conf"
\* and the last arm `_`, reached by every other name, both call conf::parse.
ParseString(source, format, features) ==
    UNION { IF detected_format = "properties" THEN {PropParse(source)}
            ELSE IF detected_format = "ini" THEN {IniParse(source)}
            ELSE IF detected_format \in Features /\ detected_format \in features
            THEN OptionalParserResults
            ELSE IF detected_format \in Features
            THEN {FeatureNotEnabled(detected_format)}
            ELSE {ConfParse(source)} :
            detected_format \in {IF format.some THEN format.v ELSE detect_format(source)} }

\* The largest index of c in text, 0 when there is none.
LastIndexOf(text, c) ==
    IF \E i \in DOMAIN text : text[i] = c
    THEN CHOOSE i \in DOMAIN text : text[i] = c /\ \A j \in DOMAIN text : text[j] = c => j <= i
    ELSE 0

\* Path::file_name of a path that does not end with a separator.
FileName(path) == SubSeq(path, LastIndexOf(path, "/") + 1, Len(path))

\* Path::extension: the part of the file name after its last dot; None
\* without a dot, for "..", and when the only dot is the first character.
Extension(path) ==
    LET file == FileName(path)
        dot == LastIndexOf(file, ".")
    IN  IF file = <<".", ".">> \/ dot <= 1 THEN None
        ELSE Some(SubSeq(file, dot + 1, Len(file)))

\* parsers::detect_format_from_path
detect_format_from_path(path) ==
    LET ext == Extension(path)
        lower == ToLowercase(ext.v)
    IN  IF ~ext.some THEN None
        ELSE IF lower \in {<<"c", "o", "n", "f">>, <<"c", "o", "n", "f", "i", "g">>, <<"c", "f", "g">>} THEN Some("conf")
        ELSE IF lower = <<"p", "r", "o", "p", "e", "r", "t", "i", "e", "s">> THEN Some("properties")
        ELSE IF lower = <<"i", "n", "i">> THEN Some("ini")
        ELSE IF lower = <<"t", "o", "m", "l">> THEN Some("toml")
        ELSE IF lower = <<"j", "s", "o", "n">> THEN Some("json")
        ELSE IF lower = <<"n", "o", "m", "l">> THEN Some("noml")
        ELSE IF lower = <<"x", "m", "l">> THEN Some("xml")
        ELSE IF lower \in {<<"h", "c", "l">>, <<"t", "f">>} THEN Some("hcl")
        ELSE Some("conf")

\* The format chosen for a file with the rules of parse_file in the other
\* order: the content first, the extension when the content says "conf".
FileFormat_ContentFirst(path, content) ==
    IF detect_format(content) # "conf" \/ ~detect_format_from_path(path).some
    THEN detect_format(content)
    ELSE detect_format_from_path(path).v

\* The format chosen by parse_file and by Config::from_file.
FileFormat(path, content) ==
    IF detect_format_from_path(path).some THEN detect_format_from_path(path).v
    ELSE detect_format(content)

(***************************************************************************)
(* The Config wrapper (config.rs): the inputs of its operations.           *)
(***************************************************************************)
\* Path segments; the empty segment arises from paths such as "a." or "a..b".
Segs == {<<"a">>, <<"b">>, <<>>}

RECURSIVE JoinDots(_)
JoinDots(segs) ==
    IF Len(segs) = 1 THEN Head(segs)
    ELSE Head(segs) \o <<".">> \o JoinDots(Tail(segs))

\* Every dot-separated path of at most MaxSegs segments, and the empty path.
Paths ==
    {<<>>} \cup UNION {{JoinDots(segs) : segs \in [1..n -> Segs]} : n \in 1..MaxSegs}

\* Values handed to set.
SetValues == {Integer(7), EmptyTable}

Key(c) == <<c>>

\* Trees of other Configs handed to merge.
OtherTrees ==
    { EmptyTable,
      Table(Key("b") :> Integer(3) @@ Key("c") :> Integer(4)),
      Table(Key("a") :> Table(Key("b") :> Integer(5)) @@ Key("b") :> EmptyTable),
      Integer(9) }

\* Trees a Config starts with: Config::new() and trees as from_string returns
\* them (the last one for the JSON text "null").
InitTrees ==
    { EmptyTable,
      Table(Key("a") :> Integer(1) @@ Key("b") :> Integer(2)),
      Table(Key("a") :> Table(Key("b") :> Integer(1) @@ Key("c") :> Integer(2))
            @@ Key("b") :> Integer(2)),
      Table(Key("a") :> Table(Key("b") :> Table(Key("a") :> Integer(1)))),
      Table(Key("a") :> EmptyTable @@ Key("b") :> Table(Key("a") :> EmptyTable)),
      Null }

\* No text has been parsed, serialized or sniffed yet.
NoOutput == [stage |-> "none"]

NoOp == [op |-> "new", path |-> <<>>, value |-> Null, before |-> Null,
         res |-> "Ok", out |-> None]

Init ==
    /\ values \in InitTrees
    /\ modified = FALSE
    /\ last = NoOp
    /\ nops = 0
    /\ input = <<>>
    /\ output = NoOutput

\* Config::set, as one of at most max operations.
SetWithin(max, path, value) ==
    /\ nops < max
    /\ LET r == SetNested(values, path, value)
       IN  /\ values' = r.tree
           /\ modified' = IF r.res = "Ok" THEN TRUE ELSE modified
           /\ last' = [op |-> "set", path |-> path, value |-> value,
                       before |-> values, res |-> r.res, out |-> None]
    /\ nops' = nops + 1
    /\ UNCHANGED <<input, output>>

Set(path, value) == SetWithin(MaxOps, path, value)

\* Config::get_mut
GetMut(path) ==
    /\ nops < MaxOps
    /\ LET r == GetMutNested(values, path)
       IN  /\ values' = r.tree
           /\ last' = [op |-> "get_mut", path |-> path, value |-> Null,
                       before |-> values, res |-> r.res, out |-> r.ref]
    /\ nops' = nops + 1
    /\ UNCHANGED <<modified, input, output>>

\* Config::remove, as one of at most max operations.
RemoveWithin(max, path) ==
    /\ nops < max
    /\ LET r == Remove(values, path)
       IN  /\ values' = r.tree
           /\ modified' = IF r.res = "Ok" /\ r.out.some THEN TRUE ELSE modified
           /\ last' = [op |-> "remove", path |-> path, value |-> Null,
                       before |-> values, res |-> r.res, out |-> r.out]
    /\ nops' = nops + 1
    /\ UNCHANGED <<input, output>>

RemoveOp(path) == RemoveWithin(MaxOps, path)

\* Config::merge, as one of at most max operations.
MergeWithin(max, other) ==
    /\ nops < max
    /\ values' = MergeValue(values, other)
    /\ modified' = TRUE
    /\ last' = [op |-> "merge", path |-> <<>>, value |-> other,
                before |-> values, res |-> "Ok", out |-> None]
    /\ nops' = nops + 1
    /\ UNCHANGED <<input, output>>

Merge(other) == MergeWithin(MaxOps, other)

Next ==
    \/ \E p \in Paths, v \in SetValues : Set(p, v)
    \/ \E p \in Paths : GetMut(p)
    \/ \E p \in Paths : RemoveOp(p)
    \/ \E o \in OtherTrees : Merge(o)

Spec == Init /\ [][Next]_vars

(***************************************************************************)
(* Config::from_string with the format "conf", applied to source texts.    *)
(***************************************************************************)
MaxTokens == 3

\* Pieces of source text: keys, separators, values, a section header, the
\* openers of a section, a quoted string and a comment, and a two-byte character.
ParseTokens ==
    { <<"a">>, <<"=">>, <<"1">>, <<"\n">>, <<" ">>, <<"[", "s", "]">>, <<"[">>,
      <<"\"">>, <<"#">>, <<EAcute>> }

RECURSIVE Concat(_)
Concat(pieces) == IF pieces = <<>> THEN <<>> ELSE Head(pieces) \o Concat(Tail(pieces))

\* Every text of at most n pieces.
TextsOf(tokens, n) == UNION {{Concat(ps) : ps \in [1..k -> tokens]} : k \in 0..n}

MaxLines == 3

\* Lines of CONF text: pairs, values with spaces
\* and commas, section headers, and the three structural failures.
ConfLines ==
    { <<"a", "=", "1", "\n">>, <<"b", "=", "2", "\n">>,
      <<"b", " ", "=", " ", "x", " ", "y", "\n">>,
      <<"b", " ", "=", " ", "1", ",", "t", "r", "u", "e", "\n">>,
      <<"[", "a", "]", "\n">>, <<"[", "s", "]", "\n">>,
      <<"b", " ", "=", " ", "\"", "q", "\n">>, <<"[", "s", "\n">>, <<"b", " ", "x", "\n">>,
      <<"b", "\n">> }

InitParse ==
    /\ values = EmptyTable
    /\ modified = FALSE
    /\ last = NoOp
    /\ nops = 0
    /\ input \in TextsOf(ParseTokens, MaxTokens) \cup TextsOf(ConfLines, MaxLines)
    /\ output = NoOutput

\* Config::from_string(input, Some("conf")): a new Config on Ok.
FromString ==
    /\ output.stage \in {"none", "serialized"}
    /\ output.stage = "serialized" => output.res.kind = "Ok"
    /\ LET r == ConfParse(input)
       IN  /\ values' = IF r.kind = "Ok" THEN r.value ELSE values
           /\ modified' = IF r.kind = "Ok" THEN FALSE ELSE modified
           /\ output' = [stage |-> "parsed", res |-> r]
    /\ UNCHANGED <<last, nops, input>>

NextParse == FromString

SpecParse == InitParse /\ [][NextParse]_vars

(***************************************************************************)
(* Config::serialize with the format "conf", and the text read back.       *)
(***************************************************************************)
MaxDepth == 2

RtKeys == {Key("a"), Key("b")}
RtLeaves == {Integer(5), String(<<"x", " ", "y">>)}

RECURSIVE RtTables(_)
\* The Tables over RtKeys nested at most d deep, with leaves of RtLeaves.
RtTables(d) ==
    IF d = 0 THEN {}
    ELSE LET vals == RtLeaves \cup RtTables(d - 1)
         IN  UNION {{Table(f) : f \in [D -> vals]} : D \in SUBSET RtKeys}

\* Scalars of every variant, one to a Table, at the root and in a section.
RtScalars ==
    { Null, Bool(TRUE), Bool(FALSE), Integer(-3), Float(15, 1), Float(1, 0),
      String(<<"x">>), String(<<>>), String(<<"t", "r", "u", "e">>), String(<<"4", "2">>) }

RoundTripTrees ==
    RtTables(MaxDepth)
    \cup {Table(Key("a") :> v) : v \in RtScalars}
    \cup {Table(Key("a") :> Table(Key("b") :> v)) : v \in RtScalars}
    \cup {Table(Key("a") :> Table(Key("b") :> Table(Key("c") :> Integer(1))))}

InitRoundTrip ==
    /\ values \in RoundTripTrees
    /\ modified = FALSE
    /\ last = NoOp
    /\ nops = 0
    /\ input = <<>>
    /\ output = NoOutput

\* Config::serialize; the text is kept in input for from_string.
Serialize ==
    /\ output.stage = "none"
    /\ LET r == SerializeAsConf(values)
       IN  /\ input' = IF r.kind = "Ok" THEN r.text ELSE input
           /\ output' = [stage |-> "serialized", res |-> r]
           /\ last' = [op |-> "serialize", path |-> <<>>, value |-> Null,
                       before |-> values, res |-> r.kind, out |-> None]
    /\ UNCHANGED <<values, modified, nops>>

NextRoundTrip ==
    \/ Serialize
    \/ output.stage = "serialized" /\ FromString

SpecRoundTrip == InitRoundTrip /\ [][NextRoundTrip]_vars

(***************************************************************************)
(* parsers::detect_format applied to contents.                             *)
(***************************************************************************)
MaxDetectTokens == 4

\* Pieces of content: a key with its separator, the markers of the advanced
\* dialect, the pieces of an HCL block, a line break and the first characters
\* of a JSON and of an XML text.
DetectTokens ==
    { <<"a", " ", "=", " ">>, <<"$", "{">>, <<"}">>, <<"e", "n", "v", "(">>,
      <<"\n">>, <<"d", "a", "t", "a", " ">>, <<" ", "\"", "x", "\"", " ", "{">>,
      <<"[">>, <<"<">> }

MaxSniffTokens == 4

\* Pieces of content for the later rules: pairs with '=' and with ':', a
\* section header and a doubled header on lines of their own, the comment
\* signs, the letters of a TOML date-time and a line break.
SniffTokens ==
    { <<"a", "=", "1">>, <<"a", ":", "1">>, <<"\n", "[", "s", "]", "\n">>,
      <<"\n", "[", "[", "s", "]", "]", "\n">>, <<"#">>, <<";">>, <<"!">>,
      <<"T">>, <<"Z">>, <<"\n">> }

InitDetect ==
    /\ values = EmptyTable
    /\ modified = FALSE
    /\ last = NoOp
    /\ nops = 0
    /\ input \in TextsOf(DetectTokens, MaxDetectTokens)
                 \cup TextsOf(SniffTokens, MaxSniffTokens)
    /\ output = NoOutput

\* parsers::detect_format(input)
DetectFormat ==
    /\ output.stage = "none"
    /\ output' = [stage |-> "detected", format |-> detect_format(input)]
    /\ UNCHANGED <<values, modified, last, nops, input>>

NextDetect == DetectFormat

SpecDetect == InitDetect /\ [][NextDetect]_vars

(***************************************************************************)
(* Config::from_string with a format hint, on INI and on Properties text.  *)
(***************************************************************************)
\* Config::from_string(input, format) in a build with the given features: a
\* new Config on Ok.
FromStringAs(format, features) ==
    /\ output.stage = "none"
    /\ \E detected_format \in {IF format.some THEN format.v ELSE detect_format(input)} :
           \E r \in ParseString(input, Some(detected_format), features) :
               /\ values' = IF r.kind = "Ok" THEN r.value ELSE values
               /\ modified' = IF r.kind = "Ok" THEN FALSE ELSE modified
               /\ output' = [stage |-> "parsed", res |-> r, format |-> detected_format,
                             hint |-> format, features |-> features]
    /\ UNCHANGED <<last, nops, input>>

MaxIniLines == 3

\* Lines of INI text: pairs before and inside a section, a header, values
\* that the typing rules tell apart, a value with a space and one with a
\* comma, a line without a separator, an unterminated header, a separator on
\* a line of its own and a comment.
IniLines ==
    { <<"a", "=", "x", "\n">>, <<"[", "s", "]", "\n">>, <<"b", "=", "y", "\n">>, <<"b", "=", "1", "\n">>, <<"b", "=", "n", "u", "l", "l", "\n">>, <<"b", "=", "\n">>,
      <<"b", "=", "x", " ", "y", "\n">>, <<"b", "=", "1", ",", "2", "\n">>, <<"a", "\n">>, <<"[", "s", "\n">>, <<":", "1", "\n">>, <<";", " ", "c", "\n">> }

InitIni ==
    /\ values = EmptyTable
    /\ modified = FALSE
    /\ last = NoOp
    /\ nops = 0
    /\ input \in TextsOf(IniLines, MaxIniLines)
    /\ output = NoOutput

\* Config::from_string(input, Some("ini")); the features do not matter to it.
FromStringIni == FromStringAs(Some("ini"), {})

NextIni == FromStringIni

SpecIni == InitIni /\ [][NextIni]_vars

MaxPropTokens == 4

\* Pieces of Properties text: a pair, the rest of a value, a blank, a tab, a
\* line break, a backslash before each kind of line break and a backslash.
PropTokens ==
    { <<"a", "=", "x">>, <<"y">>, <<" ">>, <<"\t">>, <<"\n">>, <<"\\", "\n">>,
      <<"\\", "\r", "\n">>, <<"\\">> }

InitProperties ==
    /\ values = EmptyTable
    /\ modified = FALSE
    /\ last = NoOp
    /\ nops = 0
    /\ input \in TextsOf(PropTokens, MaxPropTokens)
    /\ output = NoOutput

\* Config::from_string(input, Some("properties")).
FromStringProperties == FromStringAs(Some("properties"), {})

NextProperties == FromStringProperties

SpecProperties == InitProperties /\ [][NextProperties]_vars

(***************************************************************************)
(* The entry points that choose the format: parse_string with a hint or    *)
(* with detection, parse_file and Config::from_file.  input is the source  *)
(* text, and for the two file operations the content of the file, which is *)
(* taken to exist and to be readable.                                      *)
(***************************************************************************)
MaxFileTokens == 2

\* Pieces of content that the detection tells apart: a pair with '=' and
\* one with ':', an INI comment, a header, and the first characters of JSON
\* and of XML.
FileTokens ==
    { <<"a", "=", "1", "\n">>, <<"a", ":", "1", "\n">>, <<";", "c", "\n">>, <<"[", "s", "]", "\n">>, <<"{">>, <<"<", "a", "/", ">">> }

\* The builds: no optional parser, one of them, all of them.
FeatureSets == {{}, {"json"}, Features}

\* Format hints: none, the names that parse_string knows, and other names.
Hints ==
    {None} \cup {Some(f) : f \in {"conf", "properties", "ini", "json", "xml", "hcl",
                                  "toml", "noml", "yaml"}}

\* File paths: extensions in both cases, known and unknown ones, no
\* extension, a dot file, a trailing dot and a dot in a directory name only.
FilePaths ==
    { <<"a", ".", "j", "s", "o", "n">>, <<"a", ".", "I", "N", "I">>, <<"a", ".", "i", "n", "i">>, <<"a", ".", "p", "r", "o", "p", "e", "r", "t", "i", "e", "s">>, <<"a", ".", "c", "o", "n", "f">>, <<"a", ".", "t", "o", "m", "l">>,
      <<"a", ".", "t", "f">>, <<"a", ".", "y", "a", "m", "l">>, <<"a">>, <<".", "j", "s", "o", "n">>, <<"a", ".">>, <<"d", ".", "i", "n", "i", "/", "a">> }

InitFile ==
    /\ values = EmptyTable
    /\ modified = FALSE
    /\ last = NoOp
    /\ nops = 0
    /\ input \in TextsOf(FileTokens, MaxFileTokens)
    /\ output = NoOutput

\* parse(input, format) of lib.rs, which is parsers::parse_string.
ParseStringOp(format, features) ==
    /\ output.stage = "none"
    /\ \E r \in ParseString(input, format, features) :
           output' = [stage |-> "parsed", res |-> r,
                      format |-> IF format.some THEN format.v ELSE detect_format(input),
                      hint |-> format, features |-> features]
    /\ last' = [NoOp EXCEPT !.op = "parse_string"]
    /\ UNCHANGED <<values, modified, nops, input>>

\* parsers::parse_file(path), the file holding input.
ParseFile(path, features) ==
    /\ output.stage = "none"
    /\ \E format \in {FileFormat(path, input)} :
           \E r \in ParseString(input, Some(format), features) :
               output' = [stage |-> "parsed", res |-> r, format |-> format,
                          hint |-> Some(format), features |-> features]
    /\ last' = [NoOp EXCEPT !.op = "parse_file", !.path = path]
    /\ UNCHANGED <<values, modified, nops, input>>

\* Config::from_file(path), the file holding input: a new Config on Ok.
FromFile(path, features) ==
    /\ output.stage = "none"
    /\ \E format \in {FileFormat(path, input)} :
           \E r \in ParseString(input, Some(format), features) :
               /\ values' = IF r.kind = "Ok" THEN r.value ELSE values
               /\ modified' = IF r.kind = "Ok" THEN FALSE ELSE modified
               /\ output' = [stage |-> "parsed", res |-> r, format |-> format,
                             hint |-> Some(format), features |-> features]
    /\ last' = [NoOp EXCEPT !.op = "from_file", !.path = path]
    /\ UNCHANGED <<nops, input>>

NextFile ==
    \/ \E format \in Hints, features \in FeatureSets : ParseStringOp(format, features)
    \/ \E path \in FilePaths, features \in FeatureSets : ParseFile(path, features)
    \/ \E path \in FilePaths, features \in FeatureSets : FromFile(path, features)

SpecFile == InitFile /\ [][NextFile]_vars

(***************************************************************************)
(* Config::from_string(text, Some("properties")) on texts with one \u     *)
(* escape: in a value, in a key, and in a value on the second line.        *)
(***************************************************************************)
MaxHexLen == 4

\* The characters after \u: hex digits of both cases and one that is none.
EscapeChars == {"0", "4", "8", "D", "e", "g"}

\* What stands before and after the escape and its digits.
EscapeContexts ==
    { [before |-> <<"a", "=">>, after |-> <<>>],
      [before |-> <<>>, after |-> <<"=", "x">>],
      [before |-> <<"b", "=", "1", "\n", "a", "=">>, after |-> <<>>] }

InitEscape ==
    /\ values = EmptyTable
    /\ modified = FALSE
    /\ last = NoOp
    /\ nops = 0
    /\ input \in { c.before \o <<"\\", "u">> \o d \o c.after :
                     c \in EscapeContexts,
                     d \in UNION {[1..n -> EscapeChars] : n \in 0..MaxHexLen} }
    /\ output = NoOutput

NextEscape == FromStringProperties

SpecEscape == InitEscape /\ [][NextEscape]_vars

(***************************************************************************)
(* JSON (parsers/json_parser.rs, feature "json").  The document is read by *)
(* serde_json; the model keeps its reading of numbers: a                   *)
(* serde_json::Number is PosInt(u64), NegInt(i64) or Float(f64).  A number *)
(* of 64 bits is held as its decimal text, without leading zeros.          *)
(***************************************************************************)
I64MaxText == <<"9", "2", "2", "3", "3", "7", "2", "0", "3", "6", "8", "5", "4", "7", "7", "5", "8", "0", "7">>
I64MinMagnitude == <<"9", "2", "2", "3", "3", "7", "2", "0", "3", "6", "8", "5", "4", "7", "7", "5", "8", "0", "8">>
U64MaxText == <<"1", "8", "4", "4", "6", "7", "4", "4", "0", "7", "3", "7", "0", "9", "5", "5", "1", "6", "1", "5">>

\* a <= b for the decimal texts of two natural numbers.
DecLeq(a, b) ==
    \/ Len(a) < Len(b)
    \/ /\ Len(a) = Len(b)
       /\ \/ a = b
          \/ \E i \in DOMAIN a :
                 /\ SubSeq(a, 1, i - 1) = SubSeq(b, 1, i - 1)
                 /\ IndexOf(Digits, a[i]) < IndexOf(Digits, b[i])

RECURSIVE DecIncr(_)
\* The decimal text of a + 1.
DecIncr(a) ==
    IF a = <<>> THEN <<"1">>
    ELSE IF a[Len(a)] = "9" THEN Append(DecIncr(SubSeq(a, 1, Len(a) - 1)), "0")
    ELSE Append(SubSeq(a, 1, Len(a) - 1), Digits[IndexOf(Digits, a[Len(a)]) + 1])

RECURSIVE DecDecr(_)
\* The decimal text of a - 1, for a > 0 (a leading zero is kept).
DecDecr(a) ==
    IF a[Len(a)] = "0" THEN Append(DecDecr(SubSeq(a, 1, Len(a) - 1)), "9")
    ELSE Append(SubSeq(a, 1, Len(a) - 1), Digits[IndexOf(Digits, a[Len(a)]) - 1])

RECURSIVE DecPlus(_, _)
\* The decimal text of a + d for a small integer d.
DecPlus(a, d) ==
    IF d = 0 THEN a
    ELSE IF d > 0 THEN DecPlus(DecIncr(a), d - 1)
    ELSE DecPlus(DecDecr(a), d + 1)

\* A number literal of a JSON text: its sign, the digits of its integer part
\* and the fraction and exponent that follow them.
LiteralOf(text) ==
    LET u == Unsigned(text)
        n == Cardinality({i \in DOMAIN u : \A j \in 1..i : IsDigit(u[j])})
    IN  [neg |-> text # <<>> /\ Head(text) = "-", digits |-> SubSeq(u, 1, n),
         rest |-> SubSeq(u, n + 1, Len(u))]

\* The f64 nearest to the number that a literal denotes.
F64Of(text) == [tag |-> "float", nearest |-> text]

\* serde_json's reading of a number literal: an integer literal is a PosInt
\* when it fits u64 and a NegInt when it is negative, not zero and fits i64;
\* every other literal is a Float.
SerdeNumber(text) ==
    LET Number(lit) ==
            IF lit.rest # <<>> THEN [n |-> "Float", f |-> F64Of(text)]
            ELSE IF ~lit.neg
            THEN IF DecLeq(lit.digits, U64MaxText) THEN [n |-> "PosInt", u |-> lit.digits]
                 ELSE [n |-> "Float", f |-> F64Of(text)]
            ELSE IF lit.digits # <<"0">> /\ DecLeq(lit.digits, I64MinMagnitude)
            THEN [n |-> "NegInt", i |-> text]
            ELSE [n |-> "Float", f |-> F64Of(text)]
    IN  Number(LiteralOf(text))

\* serde_json::from_str on the documents of the model: a number, an array of
\* one number and an object with the one key a.
SerdeFromStr(text) ==
    IF StartsWith(text, <<"[">>) /\ EndsWith(text, <<"]">>)
    THEN [j |-> "Array", items |-> <<[j |-> "Number",
                                     n |-> SerdeNumber(SubSeq(text, 2, Len(text) - 1))]>>]
    ELSE IF StartsWith(text, <<"{", "\"", "a", "\"", ":">>) /\ EndsWith(text, <<"}">>)
    THEN [j |-> "Object", map |-> <<"a">> :> [j |-> "Number",
                                             n |-> SerdeNumber(SubSeq(text, 6, Len(text) - 1))]]
    ELSE [j |-> "Number", n |-> SerdeNumber(text)]

\* serde_json::Number::as_i64 and as_f64.
as_i64(n) ==
    IF n.n = "PosInt" THEN (IF DecLeq(n.u, I64MaxText) THEN Some(n.u) ELSE None)
    ELSE IF n.n = "NegInt" THEN Some(n.i)
    ELSE None
as_f64(n) ==
    IF n.n = "PosInt" THEN Some(F64Of(n.u))
    ELSE IF n.n = "NegInt" THEN Some(F64Of(n.i))
    ELSE Some(n.f)

\* convert_json_value, the arm of serde_json::Value::Number.
convert_json_number(n) ==
    IF as_i64(n).some THEN [kind |-> "Ok", value |-> Integer(as_i64(n).v)]
    ELSE IF as_f64(n).some THEN [kind |-> "Ok", value |-> as_f64(n).v]
    ELSE [kind |-> "Err", line |-> 1, column |-> 1]

\* convert_json_value on the documents of the model.
convert_json_value(json_value) ==
    LET Wrapped(r, wrap(_)) == IF r.kind = "Ok" THEN [kind |-> "Ok", value |-> wrap(r.value)] ELSE r
        InArray(v) == Array(<<v>>)
        InTable(v) == Table(<<"a">> :> v)
    IN  IF json_value.j = "Array"
        THEN Wrapped(convert_json_number(json_value.items[1].n), InArray)
        ELSE IF json_value.j = "Object"
        THEN Wrapped(convert_json_number(json_value.map[<<"a">>].n), InTable)
        ELSE convert_json_number(json_value.n)

\* json_parser::parse
JsonParse(source) == convert_json_value(SerdeFromStr(source))

MaxJsonOffset == 2

\* Number literals around zero, i64::MAX and u64::MAX, of both signs, with
\* and without a fraction or an exponent.
JsonLiterals ==
    { sign \o m \o rest :
        sign \in {<<>>, <<"-">>},
        m \in {NatToText(d) : d \in 0..MaxJsonOffset}
                \cup {DecPlus(I64MaxText, d) : d \in (-MaxJsonOffset)..MaxJsonOffset}
                \cup {DecPlus(U64MaxText, d) : d \in (-MaxJsonOffset)..MaxJsonOffset},
        rest \in {<<>>, <<".", "0">>, <<".", "5">>, <<"e", "0">>} }

InitJson ==
    /\ values = EmptyTable
    /\ modified = FALSE
    /\ last = NoOp
    /\ nops = 0
    /\ input \in JsonLiterals \cup {<<"[">> \o l \o <<"]">> : l \in JsonLiterals}
                              \cup {<<"{", "\"", "a", "\"", ":">> \o l \o <<"}">> : l \in JsonLiterals}
    /\ output = NoOutput

\* Config::from_string(input, Some("json")) in a build with the feature json.
FromStringJson ==
    /\ output.stage = "none"
    /\ \E r \in {JsonParse(input)} :
           /\ values' = IF r.kind = "Ok" THEN r.value ELSE values
           /\ modified' = IF r.kind = "Ok" THEN FALSE ELSE modified
           /\ output' = [stage |-> "parsed", res |-> r, format |-> "json",
                         hint |-> Some("json"), features |-> {"json"}]
    /\ UNCHANGED <<last, nops, input>>

NextJson == FromStringJson

SpecJson == InitJson /\ [][NextJson]_vars

(***************************************************************************)
(* HCL (parsers/hcl_parser.rs, feature "hcl").  Lines are numbered from 1. *)
(***************************************************************************)
RECURSIVE TrimMatchesQuote(_)
\* str::trim_matches('"')
TrimMatchesQuote(s) ==
    IF s # <<>> /\ Head(s) = "\"" THEN TrimMatchesQuote(Tail(s))
    ELSE IF s # <<>> /\ s[Len(s)] = "\"" THEN TrimMatchesQuote(SubSeq(s, 1, Len(s) - 1))
    ELSE s

\* str::find(char), for a text that holds the character.
Find(s, c) == CHOOSE i \in DOMAIN s : s[i] = c /\ \A j \in 1..(i - 1) : s[j] # c

\* HclParser::parse_value
HclParseValue(value_str) ==
    IF value_str = <<"t", "r", "u", "e">> THEN Bool(TRUE)
    ELSE IF value_str = <<"f", "a", "l", "s", "e">> THEN Bool(FALSE)
    ELSE IF ParseI64(value_str).some THEN Integer(ParseI64(value_str).v)
    ELSE IF ParseF64(value_str).some THEN ParseF64(value_str).v
    ELSE String(value_str)

\* The key and the value of a line with '='.
HclKey(line) == TrimMatchesQuote(Trim(SubSeq(line, 1, Find(line, "=") - 1)))
HclValue(line) ==
    HclParseValue(TrimMatchesQuote(Trim(SubSeq(line, Find(line, "=") + 1, Len(line)))))

\* An empty line or a comment.
HclSkipped(line) == line = <<>> \/ StartsWith(line, <<"#">>) \/ StartsWith(line, <<"/", "/">>)

\* The test for the end of a block.
HclBlockEnd(block_line) == block_line = <<"}">>

RECURSIVE HclBlockLoop(_, _, _)
\* The inner loop of HclParser::parse: the lines of a block from line i on.
HclBlockLoop(lines, i, block_map) ==
    LET Line(block_line) ==
            IF HclBlockEnd(block_line) THEN [i |-> i + 1, map |-> block_map]
            ELSE IF HclSkipped(block_line) THEN HclBlockLoop(lines, i + 1, block_map)
            ELSE IF ContainsChar(block_line, "=")
            THEN HclBlockLoop(lines, i + 1,
                              MapInsert(block_map, HclKey(block_line), HclValue(block_line)))
            ELSE HclBlockLoop(lines, i + 1, block_map)
    IN  IF i > Len(lines) THEN [i |-> i, map |-> block_map]
        ELSE Line(Trim(lines[i]))

RECURSIVE HclLoop(_, _, _)
\* The outer loop of HclParser::parse.
HclLoop(lines, i, map) ==
    LET Block(line, b) ==
            HclLoop(lines, b.i,
                    MapInsert(map, TrimMatchesQuote(Trim(Split(line, "{")[1])), Table(b.map)))
        Line(line) ==
            IF HclSkipped(line) THEN HclLoop(lines, i + 1, map)
            ELSE IF ContainsChar(line, "{") /\ ~ContainsChar(line, "=")
            THEN Block(line, HclBlockLoop(lines, i + 1, EmptyMap))
            ELSE IF ContainsChar(line, "=")
            THEN HclLoop(lines, i + 1, MapInsert(map, HclKey(line), HclValue(line)))
            ELSE HclLoop(lines, i + 1, map)
    IN  IF i > Len(lines) THEN [kind |-> "Ok", value |-> Table(map)]
        ELSE Line(Trim(lines[i]))

\* parse_hcl
HclParse(content) == HclLoop(Lines(content), 1, EmptyMap)

MaxHclLines == 3

\* Lines of HCL text: the head of a block, its end, a pair, a comment, a
\* word, an end with a comment and a pair whose value opens a brace.
HclLines ==
    { <<"b", " ", "{", "\n">>, <<"}", "\n">>, <<"x", " ", "=", " ", "1", "\n">>, <<"#", " ", "c", "\n">>, <<"y", "\n">>, <<"}", " ", "#", " ", "c", "\n">>,
      <<"t", " ", "=", " ", "{", "\n">> }

InitHcl ==
    /\ values = EmptyTable
    /\ modified = FALSE
    /\ last = NoOp
    /\ nops = 0
    /\ input \in TextsOf(HclLines, MaxHclLines)
    /\ output = NoOutput

\* Config::from_string(input, Some("hcl")) in a build with the feature hcl.
FromStringHcl ==
    /\ output.stage = "none"
    /\ \E r \in {HclParse(input)} :
           /\ values' = IF r.kind = "Ok" THEN r.value ELSE values
           /\ modified' = IF r.kind = "Ok" THEN FALSE ELSE modified
           /\ output' = [stage |-> "parsed", res |-> r, format |-> "hcl",
                         hint |-> Some("hcl"), features |-> {"hcl"}]
    /\ UNCHANGED <<last, nops, input>>

NextHcl == FromStringHcl

SpecHcl == InitHcl /\ [][NextHcl]_vars

(***************************************************************************)
(* XML (parsers/xml_parser.rs, feature "xml").  The content is read by     *)
(* quick_xml::Reader; the model starts from the events that the reader     *)
(* yields before Eof.  An event is Start or Empty with a name and a list   *)
(* of attributes, End, or Text with the unescaped text.                    *)
(***************************************************************************)
\* XmlParser::parse_value
XmlParseValue(text) ==
    IF text = <<"t", "r", "u", "e">> THEN Bool(TRUE)
    ELSE IF text = <<"f", "a", "l", "s", "e">> THEN Bool(FALSE)
    ELSE IF ParseI64(text).some THEN Integer(ParseI64(text).v)
    ELSE IF ParseF64(text).some THEN ParseF64(text).v
    ELSE String(text)

RECURSIVE XmlAttributes(_, _)
\* The loop over e.attributes(): each attribute is inserted as a String.
XmlAttributes(attrs, element_map) ==
    IF attrs = <<>> THEN element_map
    ELSE XmlAttributes(Tail(attrs),
                       MapInsert(element_map, Head(attrs).key, String(Head(attrs).value)))

\* parent.insert(name, value) on the top of the stack.
XmlInsertTop(stack, name, value) ==
    [stack EXCEPT ![Len(stack)].map = MapInsert(stack[Len(stack)].map, name, value)]

\* Mutant: an element that holds only text stays a Table.
XmlClosed_Table(element_map) == Table(element_map)

\* The value of an element at its End event.
XmlClosed(element_map) ==
    IF DOMAIN element_map = {<<"t", "e", "x", "t">>} THEN element_map[<<"t", "e", "x", "t">>] ELSE Table(element_map)

RECURSIVE XmlLoop(_, _, _)
\* The loop of XmlParser::parse over the events that are left.
XmlLoop(events, stack, root) ==
    LET Put(name, value) ==
            IF stack # <<>> THEN XmlLoop(Tail(events), XmlInsertTop(stack, name, value), root)
            ELSE XmlLoop(Tail(events), stack, MapInsert(root, name, value))
        Pop(top, rest) ==
            IF rest # <<>>
            THEN XmlLoop(Tail(events), XmlInsertTop(rest, top.name, XmlClosed(top.map)), root)
            ELSE XmlLoop(Tail(events), rest, MapInsert(root, top.name, XmlClosed(top.map)))
        Event(e) ==
            CASE e.e = "Start" ->
                     XmlLoop(Tail(events),
                             Append(stack, [name |-> e.name,
                                            map |-> XmlAttributes(e.attrs, EmptyMap)]),
                             root)
              [] e.e = "End" ->
                     IF stack = <<>> THEN XmlLoop(Tail(events), stack, root)
                     ELSE Pop(stack[Len(stack)], SubSeq(stack, 1, Len(stack) - 1))
              [] e.e = "Text" ->
                     IF Trim(e.text) # <<>> /\ stack # <<>>
                     THEN XmlLoop(Tail(events),
                                  XmlInsertTop(stack, <<"t", "e", "x", "t">>, XmlParseValue(Trim(e.text))),
                                  root)
                     ELSE XmlLoop(Tail(events), stack, root)
              [] e.e = "Empty" -> Put(e.name, Table(XmlAttributes(e.attrs, EmptyMap)))
    IN  IF events = <<>> THEN [kind |-> "Ok", value |-> Table(root)]
        ELSE Event(Head(events))

\* parse_xml on a content that the reader turns into these events.
XmlParse(events) == XmlLoop(events, <<>>, EmptyMap)

MaxXmlEvents == 5

\* The events of the model: elements a, b and text, without attributes, with
\* the attribute k and with the attribute text; texts x and 1.
XmlEvents ==
    { [e |-> "Start", name |-> <<"a">>, attrs |-> <<>>],
      [e |-> "Start", name |-> <<"b">>, attrs |-> <<[key |-> <<"k">>, value |-> <<"v">>]>>],
      [e |-> "Start", name |-> <<"a">>, attrs |-> <<[key |-> <<"t", "e", "x", "t">>, value |-> <<"1">>]>>],
      [e |-> "End"],
      [e |-> "Text", text |-> <<"x">>],
      [e |-> "Text", text |-> <<"1">>],
      [e |-> "Empty", name |-> <<"a">>, attrs |-> <<[key |-> <<"t", "e", "x", "t">>, value |-> <<"v">>]>>],
      [e |-> "Empty", name |-> <<"t", "e", "x", "t">>, attrs |-> <<>>] }

\* The number of elements that are open after the events.
XmlDepth(events) ==
    Cardinality({i \in DOMAIN events : events[i].e = "Start"})
        - Cardinality({i \in DOMAIN events : events[i].e = "End"})

\* Every End closes an element, every element is closed, and text stands
\* inside an element.
XmlWellNested(events) ==
    /\ XmlDepth(events) = 0
    /\ \A i \in DOMAIN events :
           /\ XmlDepth(SubSeq(events, 1, i)) >= 0
           /\ events[i].e = "Text" => XmlDepth(SubSeq(events, 1, i)) > 0

InitXml ==
    /\ values = EmptyTable
    /\ modified = FALSE
    /\ last = NoOp
    /\ nops = 0
    /\ input \in {events \in UNION {[1..n -> XmlEvents] : n \in 0..MaxXmlEvents} :
                    XmlWellNested(events)}
    /\ output = NoOutput

\* Config::from_string(content, Some("xml")) in a build with the feature xml,
\* for a content with the events input.
FromStringXml ==
    /\ output.stage = "none"
    /\ \E r \in {XmlParse(input)} :
           /\ values' = IF r.kind = "Ok" THEN r.value ELSE values
           /\ modified' = IF r.kind = "Ok" THEN FALSE ELSE modified
           /\ output' = [stage |-> "parsed", res |-> r, format |-> "xml",
                         hint |-> Some("xml"), features |-> {"xml"}]
    /\ UNCHANGED <<last, nops, input>>

NextXml == FromStringXml

SpecXml == InitXml /\ [][NextXml]_vars

(***************************************************************************)
(* Config::from(value).serialize() for values of every shape: the format   *)
(* of such a Config is "conf".                                             *)
(***************************************************************************)
MaxItems == 2

\* The elements of the arrays: scalars and Tables.
ShapeItems == {Null, Integer(1), String(<<"x">>), EmptyTable, Table(<<"a">> :> Integer(1))}

\* Arrays of at most MaxItems elements, and arrays of one such array.
ShapeArrays ==
    LET flat == {Array(items) : items \in UNION {[1..n -> ShapeItems] : n \in 0..MaxItems}}
    IN  flat \cup {Array(<<a>>) : a \in flat}

\* A scalar or an array: at the root, under a key, and in a section.
ShapeTrees ==
    LET vals == {Null, Integer(1), String(<<"x">>)} \cup ShapeArrays
    IN  vals \cup {Table(<<"a">> :> v) : v \in vals}
             \cup {Table(<<"s">> :> Table(<<"a">> :> v)) : v \in vals}

InitShapes ==
    /\ values \in ShapeTrees
    /\ modified = FALSE
    /\ last = NoOp
    /\ nops = 0
    /\ input = <<>>
    /\ output = NoOutput

NextShapes == Serialize

SpecShapes == InitShapes /\ [][NextShapes]_vars

(***************************************************************************)
(* Value::as_bool (value.rs) applied to the value that values holds.       *)
(***************************************************************************)
\* Error::type_error(_, expected, actual)
TypeError(expected, actual) ==
    [kind |-> "TypeMismatch", expected_type |-> expected, actual_type |-> actual]

\* Mutant: the words are compared as they are written.
as_bool_CaseSensitive(self) ==
    IF self.tag = "bool" THEN [kind |-> "Ok", b |-> self.b]
    ELSE IF self.tag = "string" /\ self.s \in {<<"t", "r", "u", "e">>, <<"y", "e", "s">>, <<"1">>, <<"o", "n">>}
    THEN [kind |-> "Ok", b |-> TRUE]
    ELSE IF self.tag = "string" /\ self.s \in {<<"f", "a", "l", "s", "e">>, <<"n", "o">>, <<"0">>, <<"o", "f", "f">>}
    THEN [kind |-> "Ok", b |-> FALSE]
    ELSE TypeError("bool", type_name(self))

\* Value::as_bool
as_bool(self) ==
    IF self.tag = "bool" THEN [kind |-> "Ok", b |-> self.b]
    ELSE IF self.tag = "string"
            /\ ToLowercase(self.s) \in {<<"t", "r", "u", "e">>, <<"y", "e", "s">>, <<"1">>, <<"o", "n">>}
    THEN [kind |-> "Ok", b |-> TRUE]
    ELSE IF self.tag = "string"
            /\ ToLowercase(self.s) \in {<<"f", "a", "l", "s", "e">>, <<"n", "o">>, <<"0">>, <<"o", "f", "f">>}
    THEN [kind |-> "Ok", b |-> FALSE]
    ELSE TypeError("bool", type_name(self))

MaxWordLen == 3

\* Every way of writing a word in upper and lower case.
CaseVariants(w) ==
    { [i \in DOMAIN w |-> IF i \in up /\ w[i] \in Range(LowerCase)
                          THEN UpperCase[IndexOf(LowerCase, w[i])] ELSE w[i]] :
        up \in SUBSET DOMAIN w }

\* Strings: the short texts over the letters of on, off and no, the digits 0,
\* 1 and 2 and the blank, and the words true, false and yes in every case
\* and with one more letter.
CoerceStrings ==
    UNION {[1..n -> {"o", "O", "n", "N", "f", "F", "0", "1", "2", " "}] : n \in 0..MaxWordLen}
        \cup UNION {CaseVariants(w) \cup {Append(w, "s")} : w \in {<<"t", "r", "u", "e">>, <<"f", "a", "l", "s", "e">>, <<"y", "e", "s">>}}

InitCoerce ==
    /\ values \in {String(s) : s \in CoerceStrings}
                    \cup { Null, Bool(TRUE), Bool(FALSE), Integer(0), Integer(1), Float(1, 0),
                           Array(<<Bool(TRUE)>>), Table(<<"a">> :> Bool(TRUE)), EmptyTable }
    /\ modified = FALSE
    /\ last = NoOp
    /\ nops = 0
    /\ input = <<>>
    /\ output = NoOutput

\* value.as_bool() on the value held.
AsBool ==
    /\ output.stage = "none"
    /\ output' = [stage |-> "coerced", res |-> as_bool(values)]
    /\ UNCHANGED <<values, modified, last, nops, input>>

NextCoerce == AsBool

SpecCoerce == InitCoerce /\ [][NextCoerce]_vars

(***************************************************************************)
(* The change flag of a Config (config.rs).  Besides values and modified,  *)
(* output holds the other fields of the Config: file_path and format.      *)
(***************************************************************************)
MaxFlagOps == 3

FlagSources == {<<>>, <<"a", " ", "=", " ", "1", "\n">>, <<"[", "a", "]", "\n", "b", " ", "=", " ", "1", "\n">>}
FlagFiles == {<<"a", ".", "c", "o", "n", "f">>, <<"a", ".", "i", "n", "i">>}
FlagPaths == {<<"a">>, <<"a", ".", "b">>}

\* The Configs that Config::new, Config::from_string(source, Some("conf"))
\* and Config::from_file(path) return, the latter two when they return Ok.
FlagConfigs ==
    {[values |-> EmptyTable, file_path |-> None, format |-> "conf"]}
    \cup {[values |-> r.value, file_path |-> None, format |-> "conf"] :
            r \in {r \in UNION {ParseString(source, Some("conf"), {}) : source \in FlagSources} :
                     r.kind = "Ok"}}
    \cup UNION {{[values |-> r.value, file_path |-> Some(path),
                  format |-> FileFormat(path, source)] :
                   r \in {r \in ParseString(source, Some(FileFormat(path, source)), {}) :
                            r.kind = "Ok"}} :
                 path \in FlagFiles, source \in FlagSources}

InitFlag ==
    /\ \E config \in FlagConfigs :
           /\ values = config.values
           /\ output = [stage |-> "config", file_path |-> config.file_path,
                        format |-> config.format]
    /\ modified = FALSE
    /\ last = NoOp
    /\ nops = 0
    /\ input = <<>>

\* Config::mark_clean
MarkClean ==
    /\ nops < MaxFlagOps
    /\ modified' = FALSE
    /\ last' = [NoOp EXCEPT !.op = "mark_clean"]
    /\ nops' = nops + 1
    /\ UNCHANGED <<values, input, output>>

\* Config::serialize in a build without optional features.
ConfigSerialize(format, tree) ==
    IF format = "conf" THEN SerializeAsConf(tree)
    ELSE IF format \in {"json", "toml", "noml"} THEN FeatureNotEnabled(format)
    ELSE [kind |-> "Err", unknown_format |-> format]

\* Config::save_to_file: the text is written unless the file system refuses.
SaveToFile(format, tree, io_ok) ==
    IF ConfigSerialize(format, tree).kind # "Ok" THEN "Err"
    ELSE IF ~io_ok THEN "Err"
    ELSE "Ok"

\* Mutant: the flag is cleared whatever save returns.
Save_AlwaysClean(io_ok) ==
    /\ nops < MaxFlagOps
    /\ \E res \in {IF output.file_path.some THEN SaveToFile(output.format, values, io_ok)
                   ELSE "Err"} :
           /\ modified' = FALSE
           /\ last' = [NoOp EXCEPT !.op = "save", !.res = res]
    /\ nops' = nops + 1
    /\ UNCHANGED <<values, input, output>>

\* Config::save
Save(io_ok) ==
    /\ nops < MaxFlagOps
    /\ \E res \in {IF output.file_path.some THEN SaveToFile(output.format, values, io_ok)
                   ELSE "Err"} :
           /\ modified' = IF res = "Ok" THEN FALSE ELSE modified
           /\ last' = [NoOp EXCEPT !.op = "save", !.res = res]
    /\ nops' = nops + 1
    /\ UNCHANGED <<values, input, output>>

NextFlag ==
    \/ \E p \in FlagPaths, v \in SetValues : SetWithin(MaxFlagOps, p, v)
    \/ \E p \in FlagPaths : RemoveWithin(MaxFlagOps, p)
    \/ MarkClean
    \/ \E io_ok \in BOOLEAN : Save(io_ok)

SpecFlag == InitFlag /\ [][NextFlag]_vars

(***************************************************************************)
(* The change flag under every operation that takes &mut self: set,        *)
(* remove, merge, mark_clean, save, and get_mut followed by an assignment  *)
(* through the reference it returns.                                       *)
(***************************************************************************)
RECURSIVE WriteWalk(_, _, _)
\* The tree after `*r = value`, where r is the reference that
\* get_mut_nested returned for the segments parts.
WriteWalk(current, parts, value) ==
    IF parts = <<>> THEN value
    ELSE [current EXCEPT !.t[Head(parts)] =
              WriteWalk(current.t[Head(parts)], Tail(parts), value)]

\* `*config.get_mut(path)? = value`: Config::get_mut and, when it returned
\* Ok, the assignment through the reference.
GetMutWrite(path, value) ==
    /\ nops < MaxFlagOps
    /\ LET r == GetMutNested(values, path)
       IN  /\ values' = IF r.res # "Ok" THEN r.tree
                        ELSE IF path = <<>> THEN value
                        ELSE WriteWalk(r.tree, Split(path, "."), value)
           /\ last' = [op |-> "get_mut", path |-> path, value |-> value,
                       before |-> values, res |-> r.res, out |-> r.ref]
    /\ nops' = nops + 1
    /\ UNCHANGED <<modified, input, output>>

NextTrack ==
    \/ \E p \in FlagPaths, v \in SetValues : SetWithin(MaxFlagOps, p, v)
    \/ \E p \in FlagPaths : RemoveWithin(MaxFlagOps, p)
    \/ \E o \in OtherTrees : MergeWithin(MaxFlagOps, o)
    \/ \E p \in FlagPaths, v \in SetValues : GetMutWrite(p, v)
    \/ MarkClean
    \/ \E io_ok \in BOOLEAN : Save(io_ok)

SpecTrack == InitFlag /\ [][NextTrack]_vars

(***************************************************************************)
(* Hot reloading (hot_reload.rs).  input is the watched file on disk: its  *)
(* path, whether it exists, its content, its modification time and the     *)
(* number of times other programs wrote or deleted it, together with what  *)
(* Config::from_file returns on that path and content (loads), which       *)
(* depends on nothing else and is computed where the content is written.   *)
(* values is the tree of the Config behind current, the one readers obtain *)
(* through config().  output holds the rest: last_modified, whether        *)
(* with_change_notifications was called, the events sent so far, whether   *)
(* start_watching was called, the position of the watcher thread (or of    *)
(* the caller of reload and snapshot) with the modification time it read,  *)
(* the state of the stop signal of the HotReloadHandle, and the tree of    *)
(* the most recent successful parse by from_file, reload or the watcher.   *)
(***************************************************************************)
MaxFileChanges == 2
MaxReloads == 2

HotPaths == {<<"a", ".", "c", "o", "n", "f">>, <<"a", ".", "i", "n", "i">>}
HotContents == {<<"a", "=", "1">>, <<"a", "=", "2">>, <<"[", "a">>, <<"=", "1">>}

\* The watched file after a write: Config::from_file looks the format up from
\* the path and the content, then parses the content.
HotFile(path, content, mtime, writes) ==
    [path |-> path, exists |-> TRUE, content |-> content, mtime |-> mtime,
     writes |-> writes,
     loads |-> UNION {ParseString(content, Some(format), {}) :
                        format \in {FileFormat(path, content)}}]

\* Config::from_file on the watched file as it is on disk.
ConfigFromFile(path, file) ==
    IF ~file.exists THEN {[kind |-> "Err", io |-> path]}
    ELSE file.loads

\* A send on the channel, when there is one.
Notify(hot, event) ==
    IF hot.notify THEN Append(hot.events, event) ELSE hot.events

\* What a reload attempt found, for the claims.
HotBefore == [values |-> values, last_modified |-> output.last_modified,
              events |-> output.events]

\* HotReloadConfig::from_file on a file that loads, then optionally
\* with_change_notifications and start_watching.
InitHot ==
    /\ \E path \in HotPaths, content \in HotContents, notify \in BOOLEAN,
          watching \in BOOLEAN :
           \E file \in {HotFile(path, content, 1, 0)} :
               \E r \in ConfigFromFile(path, file) :
                   /\ r.kind = "Ok"
                   /\ input = file
                   /\ values = r.value
                   /\ output = [stage |-> "hot", last_modified |-> file.mtime,
                                notify |-> notify, events |-> <<>>,
                                watching |-> watching, pc |-> "poll", seen |-> 0,
                                stop |-> "none", parsed |-> r.value]
    /\ modified = FALSE
    /\ last = NoOp
    /\ nops = 0

\* Another program writes the file; the clock of the file system may not
\* have advanced since the previous write.
WriteFile(content, tick) ==
    /\ input.writes < MaxFileChanges
    /\ input' = HotFile(input.path, content, input.mtime + tick, input.writes + 1)
    /\ UNCHANGED <<values, modified, last, nops, output>>

\* Another program deletes the file.
DeleteFile ==
    /\ input.writes < MaxFileChanges
    /\ input.exists
    /\ input' = [input EXCEPT !.exists = FALSE, !.writes = input.writes + 1]
    /\ UNCHANGED <<values, modified, last, nops, output>>

\* HotReloadConfig::reload.  A parser that never ends keeps the caller
\* inside reload; a parser that panics unwinds out of it.
Reload ==
    /\ ~output.watching
    /\ output.pc = "poll"
    /\ nops < MaxReloads
    /\ IF ~input.exists
       THEN /\ last' = [NoOp EXCEPT !.op = "reload", !.res = "Err", !.out = [at |-> "metadata"],
                                    !.before = HotBefore]
            /\ UNCHANGED <<values, output>>
       ELSE IF input.mtime <= output.last_modified
       THEN /\ last' = [NoOp EXCEPT !.op = "reload", !.res = "Ok", !.out = [reloaded |-> FALSE],
                                    !.before = HotBefore]
            /\ UNCHANGED <<values, output>>
       ELSE \E r \in ConfigFromFile(input.path, input) :
                IF r.kind = "Ok"
                THEN /\ values' = r.value
                     /\ output' = [output EXCEPT !.last_modified = input.mtime,
                                                 !.events = Notify(output, "Reloaded"),
                                                 !.parsed = r.value]
                     /\ last' = [NoOp EXCEPT !.op = "reload", !.res = "Ok", !.out = [reloaded |-> TRUE],
                                             !.before = HotBefore]
                ELSE IF r.kind = "Err"
                THEN /\ output' = [output EXCEPT !.events = Notify(output, "ReloadFailed")]
                     /\ last' = [NoOp EXCEPT !.op = "reload", !.res = "Err",
                                             !.out = [at |-> "from_file"], !.before = HotBefore]
                     /\ UNCHANGED values
                ELSE /\ output' = [output EXCEPT
                                      !.pc = IF r.kind = "Hang" THEN "hung" ELSE "poll"]
                     /\ last' = [NoOp EXCEPT !.op = "reload", !.res = r.kind,
                                             !.out = [at |-> "from_file"], !.before = HotBefore]
                     /\ UNCHANGED values
    /\ nops' = nops + 1
    /\ UNCHANGED <<modified, input>>

\* The watcher thread of start_watching: the check for the stop signal, then
\* the check for file changes.
WatcherPoll ==
    /\ output.watching
    /\ output.pc = "poll"
    /\ output.stop = "sent" \/ nops < MaxReloads
    /\ IF output.stop = "sent"
       THEN /\ output' = [output EXCEPT !.pc = "done"]
            /\ UNCHANGED nops
       ELSE IF input.exists /\ input.mtime > output.last_modified
       THEN /\ output' = [output EXCEPT !.events = Notify(output, "FileModified"),
                                        !.pc = "reload", !.seen = input.mtime]
            /\ UNCHANGED nops
       ELSE /\ nops' = nops + 1
            /\ UNCHANGED output
    /\ last' = [NoOp EXCEPT !.op = "watch", !.res = "Ok", !.out = [at |-> "poll"],
                            !.before = HotBefore]
    /\ UNCHANGED <<values, modified, input>>

\* The watcher thread of start_watching: the attempt to reload, then the
\* sleep.  A parser that never ends keeps the thread in from_file; a parser
\* that panics ends the thread.
WatcherReload ==
    /\ output.watching
    /\ output.pc = "reload"
    /\ \E r \in ConfigFromFile(input.path, input) :
           IF r.kind = "Ok"
           THEN /\ values' = r.value
                /\ output' = [output EXCEPT !.last_modified = output.seen,
                                            !.events = Notify(output, "Reloaded"),
                                            !.pc = "poll", !.parsed = r.value]
                /\ last' = [NoOp EXCEPT !.op = "watch", !.res = "Ok", !.out = [reloaded |-> TRUE],
                                        !.before = HotBefore]
           ELSE IF r.kind = "Err"
           THEN /\ output' = [output EXCEPT !.events = Notify(output, "ReloadFailed"),
                                            !.pc = "poll"]
                /\ last' = [NoOp EXCEPT !.op = "watch", !.res = "Err", !.out = [at |-> "from_file"],
                                        !.before = HotBefore]
                /\ UNCHANGED values
           ELSE /\ output' = [output EXCEPT
                                 !.pc = IF r.kind = "Hang" THEN "hung" ELSE "panicked"]
                /\ last' = [NoOp EXCEPT !.op = "watch", !.res = r.kind, !.out = [at |-> "from_file"],
                                        !.before = HotBefore]
                /\ UNCHANGED values
    /\ nops' = nops + 1
    /\ UNCHANGED <<modified, input>>

\* HotReloadConfig::snapshot, which the owner can call until start_watching
\* takes the HotReloadConfig.
Snapshot ==
    /\ ~output.watching
    /\ output.pc = "poll"
    /\ nops < MaxReloads
    /\ \E r \in ConfigFromFile(input.path, input) :
           /\ last' = [NoOp EXCEPT !.op = "snapshot", !.res = r.kind,
                                   !.out = IF r.kind = "Ok" THEN r.value ELSE r,
                                   !.before = HotBefore]
           /\ output' = [output EXCEPT !.pc = IF r.kind = "Hang" THEN "hung" ELSE "poll"]
    /\ nops' = nops + 1
    /\ UNCHANGED <<values, modified, input>>

\* HotReloadHandle::stop, or the drop of the handle: the stop signal is sent
\* and the caller waits in join.
Stop ==
    /\ output.watching
    /\ output.stop = "none"
    /\ output' = [output EXCEPT !.stop = "sent"]
    /\ UNCHANGED <<values, modified, last, nops, input>>

\* The join of HotReloadHandle::stop or of the drop returns: the thread has
\* left its loop or has panicked.
Joined ==
    /\ output.watching
    /\ output.stop = "sent"
    /\ output.pc \in {"done", "panicked"}
    /\ output' = [output EXCEPT !.stop = "returned"]
    /\ UNCHANGED <<values, modified, last, nops, input>>

NextHot ==
    \/ \E content \in HotContents, tick \in {0, 1} : WriteFile(content, tick)
    \/ DeleteFile
    \/ Reload
    \/ WatcherPoll
    \/ WatcherReload
    \/ Snapshot
    \/ Stop
    \/ Joined

SpecHot == InitHot /\ [][NextHot]_vars

\* The watcher thread and a thread that waits in join are scheduled.
SpecHotFair ==
    SpecHot /\ WF_vars(WatcherPoll) /\ WF_vars(WatcherReload) /\ WF_vars(Joined)

(***************************************************************************)
(* EnterpriseConfig (enterprise.rs).  values is the Table of the main      *)
(* cache; output holds the defaults, the fast cache with its counters and  *)
(* the read_only flag.  Keys are texts; a lock is never poisoned.          *)
(***************************************************************************)
MaxEnterpriseOps == 3
FastCacheCapacity == 100
FastCacheEvicted == 20

EnterpriseKeys == {<<"a">>, <<"a", ".", "b">>, <<"b">>}
EnterpriseValues == {Integer(7), Integer(8)}
\* The main caches of the other EnterpriseConfig handed to merge.
\* The keys of a full fast cache, and the keys named once it is full.
MaxFill == 2
FastKey(i) == NatToText(i)
FastProbes == {FastKey(1), FastKey(FastCacheCapacity), FastKey(FastCacheCapacity + 1),
               FastKey(FastCacheCapacity + 2)}
EnterpriseOthers == {(<<"a">> :> Integer(9)), (<<"b">> :> Table(<<"c">> :> Integer(9)))}

\* FastCache::get
FastCacheGet(fast_cache, key) ==
    IF key \in DOMAIN fast_cache.hot_values
    THEN [fast_cache |-> [fast_cache EXCEPT !.hits = fast_cache.hits + 1],
          value |-> Some(fast_cache.hot_values[key])]
    ELSE [fast_cache |-> [fast_cache EXCEPT !.misses = fast_cache.misses + 1],
          value |-> None]

\* The keys that the operations of the specifications name.
NamedKeys == EnterpriseKeys \cup FastProbes

RECURSIVE TakeKeys(_, _)
\* n of the keys, or all of them if there are fewer.
TakeKeys(keys, n) ==
    IF n = 0 \/ keys = {} THEN {}
    ELSE LET k == CHOOSE k \in keys : TRUE
         IN  {k} \cup TakeKeys(keys \ {k}, n - 1)

\* hot_values.keys().take(20): the iteration order of the HashMap is any
\* order.  The keys no operation names are interchangeable, so one choice
\* among them stands for all; among the named keys every choice is kept.
EvictedKeys(hot_values) ==
    {named \cup TakeKeys((DOMAIN hot_values) \ NamedKeys, FastCacheEvicted - Cardinality(named)) :
       named \in {g \in SUBSET ((DOMAIN hot_values) \cap NamedKeys) :
                    /\ Cardinality(g) <= FastCacheEvicted
                    /\ FastCacheEvicted - Cardinality(g)
                           <= Cardinality((DOMAIN hot_values) \ NamedKeys)}}

\* Mutant: the eviction starts one entry later.
FastCacheInsert_Late(fast_cache, key, value) ==
    IF Cardinality(DOMAIN fast_cache.hot_values) > FastCacheCapacity
    THEN {[fast_cache EXCEPT !.hot_values =
               MapInsert([k \in (DOMAIN fast_cache.hot_values) \ gone |->
                             fast_cache.hot_values[k]], key, value)] :
            gone \in EvictedKeys(fast_cache.hot_values)}
    ELSE {[fast_cache EXCEPT !.hot_values = MapInsert(fast_cache.hot_values, key, value)]}

\* FastCache::insert: the caches it can leave, one for each choice of the
\* keys to evict.
FastCacheInsert(fast_cache, key, value) ==
    IF Cardinality(DOMAIN fast_cache.hot_values) >= FastCacheCapacity
    THEN {[fast_cache EXCEPT !.hot_values =
               MapInsert([k \in (DOMAIN fast_cache.hot_values) \ gone |->
                             fast_cache.hot_values[k]], key, value)] :
            gone \in EvictedKeys(fast_cache.hot_values)}
    ELSE {[fast_cache EXCEPT !.hot_values = MapInsert(fast_cache.hot_values, key, value)]}

\* EnterpriseConfig::get_nested
get_nested(table, key) ==
    IF ~ContainsChar(key, ".")
    THEN IF key \in DOMAIN table THEN Some(table[key]) ELSE None
    ELSE LET parts == Split(key, ".")
         IN  IF parts[1] \in DOMAIN table THEN GetWalk(table[parts[1]], Tail(parts))
             ELSE None

RECURSIVE set_recursive(_, _, _)
\* set_recursive of EnterpriseConfig::set_nested
set_recursive(table, parts, value) ==
    IF Len(parts) = 1 THEN MapInsert(table, parts[1], value)
    ELSE MapInsert(table, parts[1],
                   Table(set_recursive(IF parts[1] \in DOMAIN table /\ is_table(table[parts[1]])
                                       THEN table[parts[1]].t
                                       ELSE EmptyMap,
                                       Tail(parts), value)))

\* EnterpriseConfig::set_nested
set_nested(table, key, value) ==
    IF ~ContainsChar(key, ".") THEN MapInsert(table, key, value)
    ELSE set_recursive(table, Split(key, "."), value)

\* What an operation found, for the claims.
EnterpriseBefore == [cache |-> values, defaults |-> output.defaults,
                     read_only |-> output.read_only,
                     misses |-> output.fast_cache.misses,
                     hot |-> DOMAIN output.fast_cache.hot_values]

EnterpriseDone(op, key, value, res, out) ==
    [NoOp EXCEPT !.op = op, !.path = key, !.value = value, !.res = res, !.out = out,
                 !.before = EnterpriseBefore]

\* EnterpriseConfig::new
InitEnterprise ==
    /\ values = EmptyTable
    /\ output = [stage |-> "enterprise", defaults |-> EmptyMap,
                 fast_cache |-> [hot_values |-> EmptyMap, hits |-> 0, misses |-> 0],
                 read_only |-> FALSE]
    /\ modified = FALSE
    /\ last = NoOp
    /\ nops = 0
    /\ input = <<>>

\* EnterpriseConfig::get
EnterpriseGet(key) ==
    /\ nops < MaxEnterpriseOps
    /\ \E hit \in {FastCacheGet(output.fast_cache, key)} :
           IF hit.value.some
           THEN /\ output' = [output EXCEPT !.fast_cache = hit.fast_cache]
                /\ last' = EnterpriseDone("get", key, Null, "Ok", hit.value)
           ELSE \E found \in {IF get_nested(values.t, key).some THEN get_nested(values.t, key)
                              ELSE get_nested(output.defaults, key)} :
                    IF found.some
                    THEN \E fast_cache \in FastCacheInsert(hit.fast_cache, key, found.v) :
                             /\ output' = [output EXCEPT !.fast_cache = fast_cache]
                             /\ last' = EnterpriseDone("get", key, Null, "Ok", found)
                    ELSE /\ output' = [output EXCEPT !.fast_cache = hit.fast_cache]
                         /\ last' = EnterpriseDone("get", key, Null, "Ok", None)
    /\ nops' = nops + 1
    /\ UNCHANGED <<values, modified, input>>

\* EnterpriseConfig::set
EnterpriseSet(key, value) ==
    /\ nops < MaxEnterpriseOps
    /\ values' = Table(set_nested(values.t, key, value))
    /\ \E fast_cache \in FastCacheInsert(
                           [output.fast_cache EXCEPT
                               !.hot_values = MapRemove(output.fast_cache.hot_values, key)],
                           key, value) :
           output' = [output EXCEPT !.fast_cache = fast_cache]
    /\ last' = EnterpriseDone("set", key, value, "Ok", None)
    /\ nops' = nops + 1
    /\ UNCHANGED <<modified, input>>

\* EnterpriseConfig::set_default
EnterpriseSetDefault(key, value) ==
    /\ nops < MaxEnterpriseOps
    /\ output' = [output EXCEPT !.defaults = set_nested(output.defaults, key, value)]
    /\ last' = EnterpriseDone("set_default", key, value, "Ok", None)
    /\ nops' = nops + 1
    /\ UNCHANGED <<values, modified, input>>

\* EnterpriseConfig::make_read_only
MakeReadOnly ==
    /\ nops < MaxEnterpriseOps
    /\ output' = [output EXCEPT !.read_only = TRUE]
    /\ last' = EnterpriseDone("make_read_only", <<>>, Null, "Ok", None)
    /\ nops' = nops + 1
    /\ UNCHANGED <<values, modified, input>>

\* EnterpriseConfig::clear
EnterpriseClear ==
    /\ nops < MaxEnterpriseOps
    /\ IF output.read_only
       THEN /\ last' = EnterpriseDone("clear", <<>>, Null, "Err", None)
            /\ UNCHANGED values
       ELSE /\ values' = EmptyTable
            /\ last' = EnterpriseDone("clear", <<>>, Null, "Ok", None)
    /\ nops' = nops + 1
    /\ UNCHANGED <<modified, input, output>>

RECURSIVE MergeEntries(_, _, _)
\* The loop of EnterpriseConfig::merge over the entries of the other cache.
MergeEntries(self_cache, other_cache, keys) ==
    IF keys = <<>> THEN self_cache
    ELSE MergeEntries(MapInsert(self_cache, Head(keys), other_cache[Head(keys)]),
                      other_cache, Tail(keys))

\* EnterpriseConfig::merge
EnterpriseMerge(other_cache) ==
    /\ nops < MaxEnterpriseOps
    /\ IF output.read_only
       THEN /\ last' = EnterpriseDone("merge", <<>>, Table(other_cache), "Err", None)
            /\ UNCHANGED values
       ELSE /\ values' = Table(MergeEntries(values.t, other_cache,
                                            SortedKeys(DOMAIN other_cache)))
            /\ last' = EnterpriseDone("merge", <<>>, Table(other_cache), "Ok", None)
    /\ nops' = nops + 1
    /\ UNCHANGED <<modified, input, output>>

NextEnterprise ==
    \/ \E key \in EnterpriseKeys : EnterpriseGet(key)
    \/ \E key \in EnterpriseKeys, value \in EnterpriseValues : EnterpriseSet(key, value)
    \/ \E key \in EnterpriseKeys, value \in EnterpriseValues : EnterpriseSetDefault(key, value)
    \/ MakeReadOnly
    \/ EnterpriseClear
    \/ \E other_cache \in EnterpriseOthers : EnterpriseMerge(other_cache)

SpecEnterprise == InitEnterprise /\ [][NextEnterprise]_vars

\* The caches after EnterpriseConfig::from_string on a text of
\* FastCacheCapacity + 2 lines `k = 7` and get(k) for the first n keys,
\* n <= FastCacheCapacity: from_string fills the main cache, and each get
\* misses the fast cache, finds its key in the main cache and, as the fast
\* cache is not full before it, inserts it there.
Filled(n) ==
    [cache |-> [k \in {FastKey(i) : i \in 1..(FastCacheCapacity + 2)} |-> Integer(7)],
     fast_cache |-> [hot_values |-> [k \in {FastKey(i) : i \in 1..n} |-> Integer(7)],
                     hits |-> 0, misses |-> n]]

\* An EnterpriseConfig with an empty fast cache, or with one that is full or
\* nearly full.
InitFastCache ==
    /\ \E n \in {0} \cup ((FastCacheCapacity - MaxFill)..FastCacheCapacity) :
           \E f \in {Filled(n)} :
               /\ values = Table(f.cache)
               /\ output = [stage |-> "enterprise", defaults |-> EmptyMap,
                            fast_cache |-> f.fast_cache, read_only |-> FALSE]
    /\ modified = FALSE
    /\ last = NoOp
    /\ nops = 0
    /\ input = <<>>

NextFastCache ==
    \/ \E key \in FastProbes : EnterpriseGet(key)
    \/ \E key \in FastProbes : EnterpriseSet(key, Integer(8))

SpecFastCache == InitFastCache /\ [][NextFastCache]_vars

(***************************************************************************)
(* The locks of EnterpriseConfig (enterprise.rs).  Threads call            *)
(* operations on handles that ConfigManager::get returns: the handles of   *)
(* one name share the three RwLocks of that name's EnterpriseConfig.  An   *)
(* operation is the sequence of lock acquisitions and releases of its      *)
(* code, one sequence for each way the data lets it go.  output holds, for *)
(* each lock, the thread that writes and the threads that read, and for    *)
(* each thread the steps of its call and its position in them.             *)
(***************************************************************************)
MaxThreadCalls == 2

Threads == {1, 2}
ConfigNames == {"x", "y"}
LockKinds == {"fast_cache", "cache", "defaults"}
Locks == [kind : LockKinds, name : ConfigNames]

Lock(kind, name) == [kind |-> kind, name |-> name]
Write(kind, name) == [do |-> "write", lock |-> Lock(kind, name)]
Read(kind, name) == [do |-> "read", lock |-> Lock(kind, name)]
Drop(kind, name) == [do |-> "drop", lock |-> Lock(kind, name)]

\* The ways an operation can go.
EnterpriseCalls ==
    {"get: fast cache hit", "get: found in cache", "get: found in defaults", "get: not found",
     "set", "set_default", "exists: in cache", "exists: not in cache", "clear", "merge",
     "save"}

\* The first block of EnterpriseConfig::get: the fast cache is locked for
\* writing, looked up and unlocked.
GetFastLookup(self) == <<Write("fast_cache", self), Drop("fast_cache", self)>>

\* The lock operations of a call on a handle of self (for merge: with a
\* handle of other), in the order of the code.
LockSteps(call, self, other) ==
    CASE call = "get: fast cache hit" -> GetFastLookup(self)
      [] call = "get: found in cache" ->
             GetFastLookup(self)
             \o <<Read("cache", self), Write("fast_cache", self), Drop("fast_cache", self),
                  Drop("cache", self)>>
      [] call = "get: found in defaults" ->
             GetFastLookup(self)
             \o <<Read("cache", self), Drop("cache", self),
                  Read("defaults", self), Write("fast_cache", self), Drop("fast_cache", self),
                  Drop("defaults", self)>>
      [] call = "get: not found" ->
             GetFastLookup(self)
             \o <<Read("cache", self), Drop("cache", self),
                  Read("defaults", self), Drop("defaults", self)>>
      [] call = "set" ->
             <<Write("cache", self), Write("fast_cache", self), Drop("fast_cache", self),
               Drop("cache", self)>>
      [] call = "set_default" -> <<Write("defaults", self), Drop("defaults", self)>>
      [] call = "exists: in cache" -> <<Read("cache", self), Drop("cache", self)>>
      [] call = "exists: not in cache" ->
             <<Read("cache", self), Drop("cache", self),
               Read("defaults", self), Drop("defaults", self)>>
      [] call = "clear" -> <<Write("cache", self), Drop("cache", self)>>
      [] call = "merge" ->
             <<Read("cache", other), Write("cache", self), Drop("cache", self),
               Drop("cache", other)>>
      [] call = "save" -> <<Read("cache", self), Drop("cache", self)>>

Idle == [call |-> "none", steps |-> <<>>, pc |-> 0]

\* No thread has called anything yet.
InitLocks ==
    /\ output = [stage |-> "locks",
                 locks |-> [l \in Locks |-> [writer |-> 0, readers |-> {}]],
                 threads |-> [t \in Threads |-> Idle]]
    /\ values = EmptyTable
    /\ modified = FALSE
    /\ last = NoOp
    /\ nops = 0
    /\ input = <<>>

\* The step a thread is at.
ThreadStep(t) == output.threads[t].steps[output.threads[t].pc]

\* The thread after its step: back from the call after the last one.
Stepped(t) ==
    IF output.threads[t].pc = Len(output.threads[t].steps) THEN Idle
    ELSE [output.threads[t] EXCEPT !.pc = output.threads[t].pc + 1]

\* RwLock::read and RwLock::write return when the lock can be given; a thread
\* that asks for a lock it holds itself waits like any other.
CanLock(step) ==
    /\ output.locks[step.lock].writer = 0
    /\ step.do = "write" => output.locks[step.lock].readers = {}

\* A thread calls an operation on a handle.
Call(t, call, self, other) ==
    /\ nops < MaxThreadCalls
    /\ output.threads[t] = Idle
    /\ output' = [output EXCEPT !.threads[t] =
                      [call |-> call, steps |-> LockSteps(call, self, other), pc |-> 1]]
    /\ nops' = nops + 1
    /\ UNCHANGED <<values, modified, last, input>>

\* A thread is given the lock it asks for.
Acquire(t) ==
    /\ output.threads[t] # Idle
    /\ ThreadStep(t).do \in {"read", "write"}
    /\ CanLock(ThreadStep(t))
    /\ output' = [output EXCEPT
                     !.locks[ThreadStep(t).lock] =
                         IF ThreadStep(t).do = "write" THEN [@ EXCEPT !.writer = t]
                         ELSE [@ EXCEPT !.readers = @ \cup {t}],
                     !.threads[t] = Stepped(t)]
    /\ UNCHANGED <<values, modified, last, nops, input>>

\* A guard goes out of scope.
Release(t) ==
    /\ output.threads[t] # Idle
    /\ ThreadStep(t).do = "drop"
    /\ output' = [output EXCEPT
                     !.locks[ThreadStep(t).lock] =
                         IF @.writer = t THEN [@ EXCEPT !.writer = 0]
                         ELSE [@ EXCEPT !.readers = @ \ {t}],
                     !.threads[t] = Stepped(t)]
    /\ UNCHANGED <<values, modified, last, nops, input>>

NextLocks ==
    \/ \E t \in Threads, call \in EnterpriseCalls, self \in ConfigNames, other \in ConfigNames :
           Call(t, call, self, other)
    \/ \E t \in Threads : Acquire(t)
    \/ \E t \in Threads : Release(t)

SpecLocks == InitLocks /\ [][NextLocks]_vars


(***************************************************************************)
(* Vocabulary of the claims about the path operations.                     *)
(***************************************************************************)
LastParts == Split(last.path, ".")

\* The value the first k segments of parts lead to in tree, if any.
At(tree, parts, k) == GetWalk(tree, SubSeq(parts, 1, k))

\* Some non-final segment of parts resolves to an existing value that is no Table.
NonTableSegment(tree, parts) ==
    \E k \in 1..(Len(parts) - 1) :
        At(tree, parts, k).some /\ ~is_table(At(tree, parts, k).v)

\* The root, or a value a non-final segment resolves to, is no Table.
NonTableOnWay(tree, parts) ==
    \E k \in 0..(Len(parts) - 1) :
        At(tree, parts, k).some /\ ~is_table(At(tree, parts, k).v)

\* Some non-final segment of parts is absent from the Table it is looked up in.
AbsentSegment(tree, parts) ==
    \E k \in 1..(Len(parts) - 1) :
        /\ At(tree, parts, k - 1).some
        /\ is_table(At(tree, parts, k - 1).v)
        /\ ~At(tree, parts, k).some

IsPrefixOf(a, b) == Len(a) <= Len(b) /\ SubSeq(b, 1, Len(a)) = a

\* C3 as stated: after set(p, v) with a non-empty path p, get(p) is Some(v).
C3_SetThenGet ==
    (last.op = "set" /\ last.path # <<>>) =>
        Get(values, last.path) = Some(last.value)

\* C3 as amended: set(p, v) with a non-empty path returns Ok unless the root or a
\* value that a non-final segment resolves to is not a Table, and whenever it
\* returns Ok, get(p) is Some(v).
C3_SetOkThenGet ==
    (last.op = "set" /\ last.path # <<>>) =>
        /\ (last.res = "Ok") <=> ~NonTableOnWay(last.before, LastParts)
        /\ (last.res = "Ok") => Get(values, last.path) = Some(last.value)

\* C3 witness: a set that created two Tables on the way and one that overwrote a leaf.
C3_Witness ==
    /\ last.op = "set" /\ last.res = "Ok"
    /\ Len(LastParts) = 3
    /\ ~At(last.before, LastParts, 1).some
    /\ Get(values, last.path) = Some(last.value)

\* C4: set fails when a non-final segment resolves to an existing non-Table
\* value, and then leaves the whole tree as it was.
C4_SetErrorKeepsTree ==
    (last.op = "set" /\ last.path # <<>> /\ NonTableSegment(last.before, LastParts)) =>
        /\ last.res = "TypeMismatch"
        /\ values = last.before

\* C4 witness: a failed set through a scalar that has a sibling, below the root.
C4_Witness ==
    /\ last.op = "set" /\ last.res = "TypeMismatch"
    /\ Len(LastParts) = 3
    /\ NonTableSegment(last.before, LastParts)
    /\ At(last.before, LastParts, 1).some
    /\ is_table(At(last.before, LastParts, 1).v)
    /\ Cardinality(DOMAIN At(last.before, LastParts, 1).v.t) = 2
    /\ values = last.before

\* C5: remove(path) for a non-empty path: an existing leaf is returned and is
\* gone afterwards while every path outside it keeps its value and every Table
\* above it stays a Table; an absent leaf of an existing parent Table gives
\* Ok(None) and no change; a non-final segment that is absent or resolves to a
\* non-Table gives an error and no change.
C5_Remove ==
    (last.op = "remove" /\ last.path # <<>>) =>
        LET parts == LastParts
            n == Len(parts)
            old == Get(last.before, last.path)
            parent == At(last.before, parts, n - 1)
        IN  /\ old.some =>
                /\ last.res = "Ok" /\ last.out = old
                /\ Get(values, last.path) = None
                /\ \A q \in Paths :
                       LET qs == IF q = <<>> THEN <<>> ELSE Split(q, ".")
                       IN  /\ IsPrefixOf(parts, qs) => Get(values, q) = None
                           /\ (IsPrefixOf(qs, parts) /\ qs # parts) =>
                                  Get(values, q).some /\ is_table(Get(values, q).v)
                           /\ (~IsPrefixOf(parts, qs) /\ ~IsPrefixOf(qs, parts)) =>
                                  Get(values, q) = Get(last.before, q)
            /\ (parent.some /\ is_table(parent.v) /\ ~old.some) =>
                /\ last.res = "Ok" /\ last.out = None
                /\ values = last.before
            /\ (NonTableSegment(last.before, parts) \/ AbsentSegment(last.before, parts)) =>
                /\ last.res \in {"TypeMismatch", "KeyNotFound"}
                /\ values = last.before

\* C5 witness: a nested leaf with a sibling was removed.
C5_Witness ==
    /\ last.op = "remove" /\ last.res = "Ok" /\ last.out.some
    /\ Len(LastParts) = 2
    /\ Cardinality(DOMAIN At(last.before, LastParts, 1).v.t) = 2
    /\ Get(values, last.path) = None

\* C5 witness of the error case: a remove whose non-final segment is absent.
C5_WitnessAbsent ==
    /\ last.op = "remove" /\ last.res = "KeyNotFound"
    /\ AbsentSegment(last.before, LastParts)

RECURSIVE IsMergeOf(_, _, _)
\* r is the deep merge of o into s as the claim words it.
IsMergeOf(r, s, o) ==
    IF is_table(s) /\ is_table(o)
    THEN /\ is_table(r)
         /\ DOMAIN r.t = (DOMAIN s.t) \cup (DOMAIN o.t)
         /\ \A k \in (DOMAIN s.t) \ (DOMAIN o.t) : r.t[k] = s.t[k]
         /\ \A k \in DOMAIN o.t :
                IF k \in DOMAIN s.t /\ is_table(s.t[k]) /\ is_table(o.t[k])
                THEN IsMergeOf(r.t[k], s.t[k], o.t[k])
                ELSE r.t[k] = o.t[k]
    ELSE r = o

\* C6: deep merge: union of the keys, keys of self alone kept, Tables on both
\* sides merged recursively, other's value otherwise; other replaces a non-Table
\* root; merging {b:3,c:4} into {a:1,b:2} gives {a:1,b:3,c:4}.
C6_DeepMerge ==
    (last.op = "merge") =>
        /\ IsMergeOf(values, last.before, last.value)
        /\ ( /\ last.before = Table(Key("a") :> Integer(1) @@ Key("b") :> Integer(2))
             /\ last.value = Table(Key("b") :> Integer(3) @@ Key("c") :> Integer(4)) )
           => values = Table(Key("a") :> Integer(1) @@ Key("b") :> Integer(3)
                             @@ Key("c") :> Integer(4))

\* C6 witness: a merge that went into a nested Table present on both sides and
\* kept a key that only self holds there.
C6_Witness ==
    /\ last.op = "merge"
    /\ is_table(last.before) /\ is_table(last.value)
    /\ \E k \in (DOMAIN last.before.t) \cap (DOMAIN last.value.t) :
           /\ is_table(last.before.t[k]) /\ is_table(last.value.t[k])
           /\ (DOMAIN last.before.t[k].t) \ (DOMAIN last.value.t[k].t) # {}
           /\ (DOMAIN last.value.t[k].t) # {}

\* C7 as stated: for every Value v, merging the empty Table into v leaves v
\* unchanged and merging v into the empty Table yields v.
C7_MergeIdentityAnyValue ==
    (last.op = "merge") =>
        /\ (last.value = EmptyTable) => values = last.before
        /\ (last.before = EmptyTable) => values = last.value

\* C7 as amended: for every Table v, merging the empty Table into v leaves v
\* unchanged; for every Value v, merging v into the empty Table yields v.
C7_MergeIdentityTable ==
    (last.op = "merge") =>
        /\ (last.value = EmptyTable /\ is_table(last.before)) => values = last.before
        /\ (last.before = EmptyTable) => values = last.value

\* C7 witness: the empty Table was merged into a Table that holds a nested Table.
C7_Witness ==
    /\ last.op = "merge" /\ last.value = EmptyTable
    /\ is_table(last.before)
    /\ \E k \in DOMAIN last.before.t : is_table(last.before.t[k])
    /\ values = last.before

\* C9: get_mut succeeds exactly when get is Some and then refers to that value;
\* it fails with KeyNotFound when a segment is absent from the Table it is
\* looked up in and with TypeMismatch when a value reached before the last
\* segment is no Table; it never changes the tree.
C9_GetMut ==
    (last.op = "get_mut") =>
        LET parts == IF last.path = <<>> THEN <<>> ELSE LastParts
            n == Len(parts)
            \* the number of leading segments that resolve
            k == CHOOSE j \in 0..n :
                     /\ At(last.before, parts, j).some
                     /\ (j < n => ~At(last.before, parts, j + 1).some)
        IN  /\ (last.res = "Ok") <=> Get(last.before, last.path).some
            /\ (last.res = "Ok") => last.out = Get(last.before, last.path)
            /\ (k < n /\ is_table(At(last.before, parts, k).v)) => last.res = "KeyNotFound"
            /\ (k < n /\ ~is_table(At(last.before, parts, k).v)) => last.res = "TypeMismatch"
            /\ values = last.before

\* C9 witness: a get_mut that failed on a scalar reached before the last segment.
C9_Witness ==
    /\ last.op = "get_mut" /\ last.res = "TypeMismatch"
    /\ Len(LastParts) = 3
    /\ At(last.before, LastParts, 2).some
    /\ values = last.before

RECURSIVE HasEmptyKey(_)
\* Some Table of v, at any depth, has the empty string as a key.
HasEmptyKey(v) ==
    IF is_table(v)
    THEN <<>> \in DOMAIN v.t \/ \E k \in DOMAIN v.t : HasEmptyKey(v.t[k])
    ELSE IF v.tag = "array"
         THEN \E i \in 1..Len(v.items) : HasEmptyKey(v.items[i])
         ELSE FALSE

\* C8 as stated: whatever set, remove and merge operations were applied, no
\* Table of the Config's tree has the empty string as a key.
C8_NoEmptyKeyAfterOps == ~HasEmptyKey(values)


(***************************************************************************)
(* Claims about parsing, serializing and sniffing.                         *)
(***************************************************************************)
\* C1: Whatever the source text, non-ASCII text and truncated or unbalanced
\* text included, the parser returns Ok or a typed Err and never panics: no
\* slice of the text is taken at an offset that is out of range or that is
\* no character boundary.
C1_ParserNeverPanics ==
    output.stage = "parsed" => output.res.kind \in {"Ok", "Err"}

\* C2: A tree made of scalars and nested Tables of any depth, serialized as
\* CONF and parsed by the conf parser, gives a tree equal to the first one.
C2_RoundTrip ==
    (last.op = "serialize" /\ output.stage = "parsed")
        => output.res = [kind |-> "Ok", value |-> last.before]

\* Content that C10 speaks of: it does not start with '{', '[' or '<', none of
\* its lines has the block syntax of HCL, and it holds a marker of the
\* advanced dialect.
C10_MarkedContent(content) ==
    /\ ~StartsWith(Trim(content), <<"{">>)
    /\ ~StartsWith(Trim(content), <<"[">>)
    /\ ~StartsWith(Trim(content), <<"<">>)
    /\ \A n \in DOMAIN Lines(content) : ~IsHclBlockLine(Trim(Lines(content)[n]))
    /\ contains_noml_features(content)

\* C10: Content without a JSON or XML start and without a line of HCL block
\* syntax that holds env(, include , ${ or an @function( marker is detected
\* as "noml", never as "hcl".
C10_MarkedContentIsNoml ==
    (output.stage = "detected" /\ C10_MarkedContent(input))
        => output.format = "noml"


\* The trimmed lines of a content.
TrimmedLines(content) == [n \in DOMAIN Lines(content) |-> Trim(Lines(content)[n])]

\* A bracketed header without '='.
C11_Header(line) ==
    StartsWith(line, <<"[">>) /\ EndsWith(line, <<"]">>) /\ ~ContainsChar(line, "=")

\* The INI rule as C11 states it.
C11_IniRule(lines) ==
    \/ \E n \in DOMAIN lines, m \in DOMAIN lines :
          /\ n < m
          /\ C11_Header(lines[n])
          /\ ~C11_Header(lines[m])
          /\ ContainsChar(lines[m], "=") \/ ContainsChar(lines[m], ":")
    \/ \E n \in DOMAIN lines : StartsWith(lines[n], <<";">>)

\* The INI rule with what the code adds: the text between the brackets of a
\* header holds no bracket, and the line inside the section is no comment.
C11_IniRuleStrict(lines) ==
    \/ \E n \in DOMAIN lines, m \in DOMAIN lines :
          /\ n < m
          /\ C11_Header(lines[n])
          /\ ~ContainsChar(SubSeq(lines[n], 2, Len(lines[n]) - 1), "[")
          /\ ~ContainsChar(SubSeq(lines[n], 2, Len(lines[n]) - 1), "]")
          /\ ~( /\ C11_Header(lines[m])
                /\ ~ContainsChar(SubSeq(lines[m], 2, Len(lines[m]) - 1), "[")
                /\ ~ContainsChar(SubSeq(lines[m], 2, Len(lines[m]) - 1), "]") )
          /\ ContainsChar(lines[m], "=") \/ ContainsChar(lines[m], ":")
          /\ ~StartsWith(lines[m], <<"#">>)
          /\ ~StartsWith(lines[m], <<";">>)
    \/ \E n \in DOMAIN lines : StartsWith(lines[n], <<";">>)

\* The Properties rule and the TOML rule as C11 states them.
C11_PropertiesRule(lines) ==
    \E n \in DOMAIN lines :
        \/ StartsWith(lines[n], <<"!">>)
        \/ \E c \in {"n", "t", "u"} : Contains(lines[n], <<"\\", c>>)
        \/ /\ ContainsChar(lines[n], ":")
           /\ ~ContainsChar(lines[n], "=")
           /\ ~StartsWith(lines[n], <<"#">>)

C11_TomlRule(lines) ==
    \E n \in DOMAIN lines :
        \/ C11_Header(lines[n])
        \/ ContainsChar(lines[n], "T") /\ ContainsChar(lines[n], "Z")

\* Content was sniffed and fell through the JSON, XML, HCL and advanced rules.
C11_FellThrough ==
    output.stage = "detected" /\ output.format \notin {"json", "xml", "hcl", "noml"}

\* C11 as stated: content that matches none of the JSON, XML, HCL and
\* advanced-dialect rules is ini when a bracketed header without '=' is
\* followed by a line of its section with '=' or ':', or when a line starts
\* with ';'; otherwise properties by the Properties rule, otherwise toml by
\* the TOML rule, otherwise conf.
C11_LaterRules ==
    C11_FellThrough =>
        output.format =
            IF C11_IniRule(TrimmedLines(input)) THEN "ini"
            ELSE IF C11_PropertiesRule(TrimmedLines(input)) THEN "properties"
            ELSE IF C11_TomlRule(TrimmedLines(input)) THEN "toml"
            ELSE "conf"

\* C11 amended: the same with the INI rule counting only a header whose inner
\* text holds no bracket and only a line of the section that does not start
\* with '#' or ';'.
C11_LaterRulesStrict ==
    C11_FellThrough =>
        output.format =
            IF C11_IniRuleStrict(TrimmedLines(input)) THEN "ini"
            ELSE IF C11_PropertiesRule(TrimmedLines(input)) THEN "properties"
            ELSE IF C11_TomlRule(TrimmedLines(input)) THEN "toml"
            ELSE "conf"

\* A pair in a section made the content ini although a later line has ':' without '='.
C11_Witness ==
    /\ C11_FellThrough
    /\ output.format = "ini"
    /\ ~(\E n \in DOMAIN TrimmedLines(input) : StartsWith(TrimmedLines(input)[n], <<";">>))
    /\ C11_PropertiesRule(TrimmedLines(input))


(***************************************************************************)
(* Claims about the CONF parser.                                           *)
(***************************************************************************)
RECURSIVE ConfAccepted(_, _, _, _)
\* The assignments <<section, key, value>> that the loop of ConfParser::parse
\* accepts, in their order, for a text that parses.
ConfAccepted(in, p, section, acc) ==
    IF ConfIsAtEnd(in, p) THEN acc
    ELSE LET q == ConfSkipWhitespaceAndComments(in, p)
         IN  IF ConfIsAtEnd(in, q) THEN acc
             ELSE IF ConfPeek(in, q) = "["
             THEN LET header == ConfParseSectionHeader(in, q)
                  IN  IF header.kind # "Ok" THEN acc
                      ELSE ConfAccepted(in, header.p, Some(header.name), acc)
             ELSE LET kv == ConfParseKeyValue(in, q)
                  IN  IF kv.kind # "Ok" THEN acc
                      ELSE ConfAccepted(in, kv.p, section,
                                        Append(acc, <<section, kv.key, kv.value>>))

\* An assignment <<section, key, value>> is present in a parsed tree: at the
\* root under key, or found by get under name.key.
C14_Present(tree, assignment) ==
    IF assignment[1].some
    THEN Get(tree, assignment[1].v \o <<".">> \o assignment[2]) = Some(assignment[3])
    ELSE assignment[2] \in DOMAIN tree.t /\ tree.t[assignment[2]] = assignment[3]

\* C14: After a text was parsed, every accepted assignment (the last one for
\* its section and key) is found by get under name.key when it follows a
\* [name] header and under key when it precedes every header; none is dropped.
C14_NoAssignmentDropped ==
    (output.stage = "parsed" /\ last.op = "new" /\ output.res.kind = "Ok") =>
        LET acc == ConfAccepted(input, ConfNew, None, <<>>)
        IN  \A i \in DOMAIN acc :
                (\A j \in (i + 1)..Len(acc) :
                        <<acc[j][1], acc[j][2]>> # <<acc[i][1], acc[i][2]>>)
                    => C14_Present(output.res.value, acc[i])

\* The inference of C15 for one unquoted text: the Bool words, the Null
\* words, then Integer, then Float, else String.
C15_Infer(text) ==
    LET lower == ToLowercase(text)
    IN  IF lower \in {<<"t", "r", "u", "e">>, <<"y", "e", "s">>, <<"o", "n">>} THEN Bool(TRUE)
        ELSE IF lower \in {<<"f", "a", "l", "s", "e">>, <<"n", "o">>, <<"o", "f", "f">>}
        THEN Bool(FALSE)
        ELSE IF lower \in {<<"n", "u", "l", "l">>, <<"n", "i", "l">>} THEN Null
        ELSE IF ParseI64(text).some THEN Integer(ParseI64(text).v)
        ELSE IF ParseF64(text).some THEN ParseF64(text).v
        ELSE String(text)

RECURSIVE C15_Pieces(_, _)
\* The non-empty pieces of a text between spaces and commas; cur is the piece
\* being read.
C15_Pieces(text, cur) ==
    IF text = <<>> THEN (IF cur = <<>> THEN <<>> ELSE <<cur>>)
    ELSE IF Head(text) \in {" ", ","}
    THEN (IF cur = <<>> THEN <<>> ELSE <<cur>>) \o C15_Pieces(Tail(text), <<>>)
    ELSE C15_Pieces(Tail(text), Append(cur, Head(text)))

\* The text is the one line `b = raw`, where raw is unquoted.
C15_IsLine(text) ==
    /\ StartsWith(text, <<"b", " ", "=", " ">>)
    /\ \A i \in 1..(Len(text) - 1) : text[i] # "\n"
    /\ \A i \in DOMAIN text : text[i] \notin {"#", "\"", "'", "[", "\r"}

C15_Raw(text) == Trim(SubSeq(text, 5, Len(text)))

\* C15: The value of the line `b = raw`, where raw holds a space or a comma,
\* is the Array of the pieces of raw between spaces and commas, each typed by
\* the inference of a scalar unquoted value.
C15_SplitAndTyped ==
    ( /\ output.stage = "parsed"
      /\ last.op = "new"
      /\ C15_IsLine(input)
      /\ ContainsChar(C15_Raw(input), " ") \/ ContainsChar(C15_Raw(input), ",") )
    => LET pieces == C15_Pieces(C15_Raw(input), <<>>)
       IN  output.res =
               [kind |-> "Ok",
                value |-> Table(Key("b") :> Array([i \in DOMAIN pieces |->
                                                      C15_Infer(pieces[i])]))]

\* The 1-indexed line and column of the character text[idx]; idx = Len(text) + 1
\* is the end of the text.
LineOf(text, idx) == 1 + Cardinality({i \in 1..(idx - 1) : text[i] = "\n"})
ColumnOf(text, idx) ==
    LET breaks == {i \in 1..(idx - 1) : text[i] = "\n"}
    IN  IF breaks = {} THEN idx ELSE idx - (CHOOSE i \in breaks : \A j \in breaks : j <= i)
ErrAt(text, idx) == [kind |-> "Err", line |-> LineOf(text, idx), column |-> ColumnOf(text, idx)]

\* The first index from idx on whose character is not in skip, or Len(text) + 1.
FirstNotIn(text, idx, skip) ==
    LET rest == {i \in idx..Len(text) : text[i] \notin skip}
    IN  IF rest = {} THEN Len(text) + 1 ELSE CHOOSE i \in rest : \A j \in rest : i <= j

\* The text starts with `b = "` and the string is never closed.
C16_UnterminatedString(text) ==
    /\ StartsWith(text, <<"b", " ", "=", " ", "\"">>)
    /\ \A i \in 6..Len(text) : text[i] \notin {"\"", "\\"}

\* The text starts with a section header that is not closed on its line; the
\* index is that of the line break or of the end of the text.
C16_HeaderEnd(text) == FirstNotIn(text, 2, Range(Chars) \ {"\n", "]"})
C16_UnterminatedHeader(text) ==
    /\ StartsWith(text, <<"[">>)
    /\ C16_HeaderEnd(text) > Len(text) \/ text[C16_HeaderEnd(text)] = "\n"

\* The text starts with a key of letters that is followed, after spaces and
\* tabs, by something else than '='; the index is that of the something.
C16_AfterKey(text) ==
    FirstNotIn(text, FirstNotIn(text, 1, Range(LowerCase)), {" ", "\t"})
C16_MissingEquals(text) ==
    /\ text # <<>>
    /\ Head(text) \in Range(LowerCase)
    /\ C16_AfterKey(text) > Len(text) \/ text[C16_AfterKey(text)] # "="

\* C16: In a text of one-byte characters an unterminated quoted string, an unterminated section header and a
\* key not followed by '=' each give Err, and the line and column of the error
\* are those of the offending character: the end of the text, the line break
\* or end of the text that ends the header, and the character found where
\* '=' was expected (on its own line also when it is a line break).
C16_StructuralErrors ==
    (output.stage = "parsed" /\ last.op = "new" /\ ~ContainsChar(input, EAcute)) =>
        /\ C16_UnterminatedString(input) => output.res = ErrAt(input, Len(input) + 1)
        /\ C16_UnterminatedHeader(input) => output.res = ErrAt(input, C16_HeaderEnd(input))
        /\ C16_MissingEquals(input) => output.res = ErrAt(input, C16_AfterKey(input))

\* The same for the unterminated string and header only.
C16_StringAndHeaderErrors ==
    (output.stage = "parsed" /\ last.op = "new" /\ ~ContainsChar(input, EAcute)) =>
        /\ C16_UnterminatedString(input) => output.res = ErrAt(input, Len(input) + 1)
        /\ C16_UnterminatedHeader(input) => output.res = ErrAt(input, C16_HeaderEnd(input))


(***************************************************************************)
(* Claims about the INI parser.                                            *)
(***************************************************************************)
\* A line that is a header: [name], the name without brackets or blanks.
C17_IsHeader(line) ==
    /\ Len(line) >= 3
    /\ line[1] = "[" /\ line[Len(line)] = "]"
    /\ \A i \in 2..(Len(line) - 1) : line[i] \notin {"[", "]", " ", "\t"}

\* A line that is a pair: key=value, both non-empty, the key without a sign
\* of the syntax, the value unquoted, without a comment and trimmed.
C17_IsPair(line) ==
    \E i \in 2..(Len(line) - 1) :
        /\ line[i] = "="
        /\ \A j \in 1..(i - 1) : line[j] \notin {"=", ":", ";", "#", "[", " ", "\t"}
        /\ \A j \in (i + 1)..Len(line) : line[j] \notin {";", "#", "\"", "'", "\\"}
        /\ line[i + 1] \notin {" ", "\t"} /\ line[Len(line)] \notin {" ", "\t"}

C17_KeyOf(line) == SubSeq(line, 1, IndexOf(line, "=") - 1)
C17_RawOf(line) == SubSeq(line, IndexOf(line, "=") + 1, Len(line))

RECURSIVE C17_Expected(_, _, _)
\* The flat map that the headers and pairs of the lines describe, read line
\* by line: a pair after a header goes under section.key.
C17_Expected(lines, section, acc) ==
    IF lines = <<>> THEN acc
    ELSE LET line == Head(lines)
         IN  IF C17_IsHeader(line)
             THEN C17_Expected(Tail(lines), Some(SubSeq(line, 2, Len(line) - 1)), acc)
             ELSE C17_Expected(Tail(lines), section,
                      MapInsert(acc,
                                IF section.some THEN section.v \o <<".">> \o C17_KeyOf(line)
                                ELSE C17_KeyOf(line),
                                IniParseTypedValue(C17_RawOf(line))))

\* The text is made of headers and pairs only.
C17_Shape(text) ==
    \A i \in DOMAIN Lines(text) : C17_IsHeader(Lines(text)[i]) \/ C17_IsPair(Lines(text)[i])

\* The example of the claim: key1=value1, [sec], key2=value2.
C17_Example ==
    IniParse(<<"k", "e", "y", "1", "=", "v", "a", "l", "u", "e", "1", "\n", "[", "s", "e", "c", "]", "\n", "k", "e", "y", "2", "=", "v", "a", "l", "u", "e", "2">>)
        = [kind |-> "Ok",
           value |-> Table(<<"k", "e", "y", "1">> :> String(<<"v", "a", "l", "u", "e", "1">>)
                           @@ <<"s", "e", "c", ".", "k", "e", "y", "2">> :> String(<<"v", "a", "l", "u", "e", "2">>))]

\* C17: the INI parser stores a key of [section] in the root Table under the
\* one literal key section.key and a key before any section under its own
\* name, and no value of its result is a Table; the example of the claim
\* parses to {key1: "value1", "sec.key2": "value2"}.
C17_IniIsFlat ==
    /\ C17_Example
    /\ (output.stage = "parsed" /\ output.format = "ini" /\ output.res.kind = "Ok")
         => \A k \in DOMAIN output.res.value.t : output.res.value.t[k].tag # "table"
    /\ (output.stage = "parsed" /\ output.format = "ini" /\ C17_Shape(input))
         => output.res = [kind |-> "Ok",
                          value |-> Table(C17_Expected(Lines(input), None, EmptyMap))]

\* A pair before the section and a pair inside it have been parsed.
C17_Witness ==
    /\ output.stage = "parsed" /\ output.format = "ini"
    /\ input = <<"a", "=", "x", "\n", "[", "s", "]", "\n", "b", "=", "y", "\n">>
    /\ values = Table(<<"a">> :> String(<<"x">>) @@ <<"s", ".", "b">> :> String(<<"y">>))

\* The text is one line key=raw with a one-letter key and an unquoted raw
\* value (possibly empty) without a comment sign.
C18_IsOneLine(text) ==
    /\ Len(Lines(text)) = 1
    /\ Len(Lines(text)[1]) >= 2
    /\ Lines(text)[1][1] \in Range(LowerCase) /\ Lines(text)[1][2] = "="
    /\ \A i \in 3..Len(Lines(text)[1]) :
           Lines(text)[1][i] \notin {";", "#", "\"", "'", "\\", "[", "\t", "\r"}

C18_Raw(text) == SubSeq(Lines(text)[1], 3, Len(Lines(text)[1]))

\* C18: for an unquoted value text without spaces or commas (1, 0, null and
\* the empty value included) the INI parser and the CONF parser give the
\* same result; an INI value with a space or a comma stays one scalar.
C18_SameTypingAsConf ==
    (output.stage = "parsed" /\ output.format = "ini" /\ C18_IsOneLine(input))
        => IF ContainsChar(C18_Raw(input), " ") \/ ContainsChar(C18_Raw(input), ",")
           THEN /\ output.res.kind = "Ok"
                /\ output.res.value.t[<<input[1]>>].tag \notin {"array", "table"}
           ELSE output.res = ConfParse(input)

\* A line at fault: an unterminated header, or a line that is neither blank
\* nor a comment nor a header and has no separator.
C19_IsFault(line) ==
    LET trimmed == Trim(line)
    IN  /\ trimmed # <<>>
        /\ trimmed[1] \notin {";", "#"}
        /\ IF trimmed[1] = "[" THEN ~ContainsChar(trimmed, "]")
           ELSE ~ContainsChar(trimmed, "=") /\ ~ContainsChar(trimmed, ":")

\* A line that is well formed: blank, a comment, a header or a pair.
C19_IsFine(line) ==
    \/ Trim(line) = <<>>
    \/ Trim(line)[1] \in {";", "#"}
    \/ C17_IsHeader(line)
    \/ C17_IsPair(line)

\* The number of the first line at fault when the lines before it are well
\* formed, and 0 when there is no such line.
C19_FaultLine(text) ==
    IF \E i \in DOMAIN Lines(text) :
           C19_IsFault(Lines(text)[i]) /\ \A j \in 1..(i - 1) : C19_IsFine(Lines(text)[j])
    THEN CHOOSE i \in DOMAIN Lines(text) :
           C19_IsFault(Lines(text)[i]) /\ \A j \in 1..(i - 1) : C19_IsFine(Lines(text)[j])
    ELSE 0

\* C19: an unterminated [section and a non-comment line without = or : on
\* that line make parse_ini return an error, never Ok, and the error carries
\* the 1-indexed number of the line at fault.
C19_HardErrors ==
    (output.stage = "parsed" /\ output.format = "ini" /\ C19_FaultLine(input) > 0)
        => /\ output.res.kind = "Err"
           /\ output.res.line = C19_FaultLine(input)

(***************************************************************************)
(* Claims about the Properties parser.                                     *)
(***************************************************************************)
RECURSIVE C20_DropBlanks(_)
\* The text without its leading spaces and tabs.
C20_DropBlanks(text) ==
    IF text # <<>> /\ text[1] \in {" ", "\t"} THEN C20_DropBlanks(Tail(text)) ELSE text

\* The length of the line break at the head of the text: 2 for "\r\n".
C20_BreakLen(text) ==
    IF Len(text) >= 2 /\ text[1] = "\r" /\ text[2] = "\n" THEN 2 ELSE 1

\* A backslash immediately followed by a line break is at the head.
C20_Continues(text) ==
    Len(text) >= 2 /\ text[1] = "\\" /\ text[2] \in {"\n", "\r"}

RECURSIVE C20_Join(_)
\* The value that the text after the separator spells: every backslash with
\* its line break and the blanks after it dropped, up to the first line
\* break that is not escaped.
C20_Join(text) ==
    IF text = <<>> \/ text[1] \in {"\n", "\r"} THEN <<>>
    ELSE IF C20_Continues(text)
    THEN C20_Join(C20_DropBlanks(
             SubSeq(text, 2 + C20_BreakLen(Tail(text)), Len(text))))
    ELSE <<text[1]>> \o C20_Join(Tail(text))

RECURSIVE C20_Rest(_)
\* What follows the value in the text after the separator.
C20_Rest(text) ==
    IF text = <<>> \/ text[1] \in {"\n", "\r"} THEN text
    ELSE IF C20_Continues(text)
    THEN C20_Rest(C20_DropBlanks(
             SubSeq(text, 2 + C20_BreakLen(Tail(text)), Len(text))))
    ELSE C20_Rest(Tail(text))

\* The text is a=... where every backslash stands immediately before a line
\* break and only blank lines follow the value.
C20_IsProperty(text) ==
    /\ Len(text) >= 2 /\ text[1] = "a" /\ text[2] = "="
    /\ \A i \in DOMAIN text :
           text[i] = "\\" => i < Len(text) /\ text[i + 1] \in {"\n", "\r"}
    /\ \A c \in Range(C20_Rest(SubSeq(text, 3, Len(text)))) : c \in {" ", "\t", "\n", "\r"}

\* C20: a backslash immediately followed by a line break continues the value
\* on the next line: the backslash, the line break and the next line's
\* leading spaces and tabs are dropped and the rest is appended; the value
\* ends only at a line break that is not escaped or at the end of the input.
C20_LineContinuation ==
    (output.stage = "parsed" /\ output.format = "properties" /\ C20_IsProperty(input))
        => output.res =
             [kind |-> "Ok",
              value |-> Table(<<"a">> :> PropInferValueType(
                                  Trim(C20_Join(SubSeq(input, 3, Len(input))))))]

\* A value continued on an indented second line has been parsed.
C20_Witness ==
    /\ output.stage = "parsed" /\ output.format = "properties"
    /\ input = <<"a", "=", "x", "\\", "\n", " ", "y">>
    /\ values = Table(<<"a">> :> String(<<"x", "y">>))

(***************************************************************************)
(* Claims about the choice of the format.                                  *)
(***************************************************************************)
\* The contents against which the choice made for a path is compared.
C12_Contents == TextsOf(FileTokens, 1)

\* C12: when the path has an extension, parse_file and Config::from_file
\* choose the format from the extension alone, the same for every content;
\* the content is sniffed only when the path has no extension.
C12_ExtensionPrecedence ==
    (output.stage = "parsed" /\ last.op \in {"parse_file", "from_file"})
        => IF Extension(last.path).some
           THEN \A content \in C12_Contents : FileFormat(last.path, content) = output.format
           ELSE output.format = detect_format(input)

\* A file named a.ini whose content reads as Properties was loaded as INI.
C12_Witness ==
    /\ output.stage = "parsed" /\ last.op = "from_file"
    /\ last.path = <<"a", ".", "i", "n", "i">>
    /\ detect_format(input) = "properties"
    /\ output.format = "ini"

\* The formats that a build with the given features can parse.
C13_Supported(features) == {"conf", "properties", "ini"} \cup features

\* C13: parse_string returns an error when the format, given as hint or
\* detected, is none of the formats that the build can parse.
C13_UnknownFormatIsError ==
    (output.stage = "parsed" /\ last.op = "parse_string"
       /\ output.format \notin C13_Supported(output.features))
        => output.res.kind = "Err"

(***************************************************************************)
(* Claims about the unicode escapes of the Properties parser.              *)
(***************************************************************************)
\* The index of the backslash of the escape, and the text after \u.
C21_At == IndexOf(input, "\\")
C21_Rest == SubSeq(input, C21_At + 2, Len(input))

\* The line of the escape and the column of the first character after \u.
C21_Line == 1 + CountChar(SubSeq(input, 1, C21_At), "\n")
C21_Column == C21_At + 2 - LastIndexOf(SubSeq(input, 1, C21_At), "\n")

\* The value of a hex digit, -1 for any other character.
C21_Hex(c) ==
    CASE c \in {"0", "1", "2", "3", "4", "5", "6", "7", "8", "9"} ->
             CHOOSE v \in 0..9 : Digits[v + 1] = c
      [] c \in {"a", "A"} -> 10
      [] c \in {"b", "B"} -> 11
      [] c \in {"c", "C"} -> 12
      [] c \in {"d", "D"} -> 13
      [] c \in {"e", "E"} -> 14
      [] c \in {"f", "F"} -> 15
      [] OTHER -> -1

\* The places among the four after \u that hold no hex digit.
C21_Faults == {i \in 1..4 : i > Len(C21_Rest) \/ C21_Hex(C21_Rest[i]) = -1}
C21_FirstFault == CHOOSE i \in C21_Faults : \A j \in C21_Faults : i <= j

\* The code point that four hex digits spell.
C21_Code ==
    4096 * C21_Hex(C21_Rest[1]) + 256 * C21_Hex(C21_Rest[2])
        + 16 * C21_Hex(C21_Rest[3]) + C21_Hex(C21_Rest[4])

\* The character with a code point outside the surrogate range.
C21_Char(code) ==
    IF code \in 32..126 THEN Ascii[code - 31]
    ELSE IF code = 233 THEN EAcute
    ELSE IF code = 9 THEN "\t"
    ELSE IF code = 10 THEN "\n"
    ELSE IF code = 13 THEN "\r"
    ELSE OtherChar

\* The text that the escape and what follows it up to the separator or the
\* end spell.
C21_Text ==
    <<C21_Char(C21_Code)>>
        \o SubSeq(C21_Rest, 5, IF "=" \in Range(C21_Rest) THEN IndexOf(C21_Rest, "=") - 1
                               ELSE Len(C21_Rest))

\* What the text with a well-formed escape spells: a key that is blank after
\* trimming is refused where the key ends.
C21_Spelled ==
    IF C21_At = 1 /\ Trim(C21_Text) = <<>>
    THEN [kind |-> "Err", line |-> 1, column |-> IndexOf(input, "=")]
    ELSE [kind |-> "Ok",
          value |-> IF C21_At = 1 THEN Table(Trim(C21_Text) :> String(<<"x">>))
                    ELSE IF C21_Line = 1
                    THEN Table(<<"a">> :> PropInferValueType(Trim(C21_Text)))
                    ELSE Table(<<"a">> :> PropInferValueType(Trim(C21_Text))
                                   @@ <<"b">> :> Integer(1))]

\* C21: \u followed by four hex digits yields the character with that code
\* point; fewer than four digits before the end of the input, a character
\* among the four that is no hex digit, or a code point in the surrogate
\* range D800-DFFF makes the parser return an error with the line and the
\* column at which it stands.
C21_UnicodeEscapes ==
    (output.stage = "parsed" /\ output.format = "properties" /\ "\\" \in Range(input))
        => output.res =
             IF C21_Faults # {}
             THEN [kind |-> "Err", line |-> C21_Line,
                   column |-> C21_Column + C21_FirstFault - 1]
             ELSE IF C21_Code \in 55296..57343
             THEN [kind |-> "Err", line |-> C21_Line, column |-> C21_Column + 4]
             ELSE C21_Spelled

\* An escape with four hex digits has been turned into its character.
C21_Witness ==
    /\ output.stage = "parsed"
    /\ input = <<"a", "=", "\\", "u", "0", "0", "4", "8">>
    /\ output.res = [kind |-> "Ok", value |-> Table(<<"a">> :> String(<<"H">>))]

(***************************************************************************)
(* Claims about the JSON parser.                                           *)
(***************************************************************************)
\* The number literal of the document.
C22_Literal ==
    LiteralOf(IF Head(input) = "[" THEN SubSeq(input, 2, Len(input) - 1)
              ELSE IF Head(input) = "{" THEN SubSeq(input, 6, Len(input) - 1)
              ELSE input)

\* The literal denotes a number of the range of i64.
C22_FitsI64 ==
    DecLeq(C22_Literal.digits, IF C22_Literal.neg THEN I64MinMagnitude ELSE I64MaxText)

\* The number that the parser made of the literal.
C22_Number ==
    IF output.res.value.tag = "array" THEN output.res.value.items[1]
    ELSE IF output.res.value.tag = "table" THEN output.res.value.t[<<"a">>]
    ELSE output.res.value

\* C22: a JSON number without fraction and exponent becomes an Integer of
\* the same value when it fits a signed 64-bit integer, and parsing returns
\* an error when it does not; it never becomes a Float.
C22_IntegralNumbers ==
    (output.stage = "parsed" /\ output.format = "json" /\ C22_Literal.rest = <<>>)
        => IF C22_FitsI64
           THEN /\ output.res.kind = "Ok"
                /\ C22_Number.tag = "integer"
                /\ Unsigned(C22_Number.i) = C22_Literal.digits
           ELSE output.res.kind = "Err"

(***************************************************************************)
(* Claims about the HCL parser.                                            *)
(***************************************************************************)
\* Line n opens a block: it is no comment and holds '{' but no '='.
C23_Opens(lines, n) ==
    /\ ~HclSkipped(lines[n])
    /\ ContainsChar(lines[n], "{") /\ ~ContainsChar(lines[n], "=")

\* The first line that opens a block is followed by no line that is exactly
\* a closing brace.
C23_Unterminated(lines) ==
    \E n \in DOMAIN lines :
        /\ C23_Opens(lines, n)
        /\ \A m \in 1..(n - 1) : ~C23_Opens(lines, m)
        /\ \A m \in (n + 1)..Len(lines) : lines[m] # <<"}">>

\* C23: when a line opens a block and no later line is exactly a closing
\* brace, parse_hcl returns an error instead of Ok with the remaining lines
\* taken as the body of the block.
C23_UnterminatedBlock ==
    (output.stage = "parsed" /\ output.format = "hcl"
       /\ C23_Unterminated(TrimmedLines(input)))
        => output.res.kind = "Err"

(***************************************************************************)
(* Claims about the XML parser.  The expected tree is read off the events  *)
(* by their nesting, without the stack of the parser.                      *)
(***************************************************************************)
\* The End event that closes the element started by event i.
C24_Close(ev, i) ==
    CHOOSE j \in (i + 1)..Len(ev) :
        /\ XmlDepth(SubSeq(ev, i, j)) = 0
        /\ \A m \in i..(j - 1) : XmlDepth(SubSeq(ev, i, m)) > 0

\* The events among lo..hi that stand directly between lo and hi: texts and
\* the first events of child elements.
C24_Items(ev, lo, hi) ==
    {k \in lo..hi : ev[k].e # "End" /\ XmlDepth(SubSeq(ev, lo, k - 1)) = 0}

\* The key under which an item is stored.
C24_KeyOf(e) == IF e.e = "Text" THEN <<"t", "e", "x", "t">> ELSE e.name

\* The attributes of a Start or Empty event as String values.
C24_Attrs(e) ==
    [x \in {a.key : a \in Range(e.attrs)} |->
        String((CHOOSE a \in Range(e.attrs) : a.key = x).value)]

\* The last of the items that is stored under the key x.
C24_Last(ev, items, x) ==
    CHOOSE m \in items :
        /\ C24_KeyOf(ev[m]) = x
        /\ \A n \in items : C24_KeyOf(ev[n]) = x => n <= m

RECURSIVE C24_Value(_, _, _)
\* The value of the item at event k.  With unwrap, an element closed by an
\* End event whose entries are the single key "text" is that entry's value.
C24_Value(ev, k, unwrap) ==
    IF ev[k].e = "Text" THEN XmlParseValue(Trim(ev[k].text))
    ELSE IF ev[k].e = "Empty" THEN Table(C24_Attrs(ev[k]))
    ELSE LET items == C24_Items(ev, k + 1, C24_Close(ev, k) - 1)
             attrs == C24_Attrs(ev[k])
             map == [x \in DOMAIN attrs \cup {C24_KeyOf(ev[m]) : m \in items} |->
                        IF \E m \in items : C24_KeyOf(ev[m]) = x
                        THEN C24_Value(ev, C24_Last(ev, items, x), unwrap)
                        ELSE attrs[x]]
         IN  IF unwrap /\ DOMAIN map = {<<"t", "e", "x", "t">>} THEN map[<<"t", "e", "x", "t">>] ELSE Table(map)

\* The tree of a well-nested sequence of events.
C24_Tree(ev, unwrap) ==
    LET items == C24_Items(ev, 1, Len(ev))
    IN  Table([x \in {C24_KeyOf(ev[m]) : m \in items} |->
                  C24_Value(ev, C24_Last(ev, items, x), unwrap)])

\* C24 as stated: every closed element is stored in its parent or the root
\* under its tag name as a Table of its attributes (String values), its
\* children and, under the key "text", the inferred text directly inside it;
\* a later sibling of the same name replaces the earlier one.
C24_EveryElementIsTable ==
    (output.stage = "parsed" /\ output.format = "xml")
        => output.res = [kind |-> "Ok", value |-> C24_Tree(input, FALSE)]

\* C24, amended: as above, except that an element closed by an End event
\* whose Table would hold the single key "text" (its text, or an attribute
\* or a child of that name) is stored as the value under that key; among
\* a text, an attribute and a child stored under the same key the attribute
\* comes first and the last one is kept.
C24_EventMapping ==
    (output.stage = "parsed" /\ output.format = "xml")
        => output.res = [kind |-> "Ok", value |-> C24_Tree(input, TRUE)]

\* An element with an attribute and a text has become a Table, and an element
\* with a text only the value of the text.
C24_Witness ==
    /\ output.stage = "parsed" /\ output.format = "xml"
    /\ Len(input) = 5
    /\ input[1] = [e |-> "Start", name |-> <<"b">>, attrs |-> <<[key |-> <<"k">>, value |-> <<"v">>]>>]
    /\ input[2].e = "Start" /\ input[2].attrs = <<>> /\ input[3] = [e |-> "Text", text |-> <<"1">>]
    /\ output.res.value =
           Table(<<"b">> :> Table(<<"k">> :> String(<<"v">>) @@ <<"a">> :> Integer(1)))

(***************************************************************************)
(* Claims about the CONF serializer.                                       *)
(***************************************************************************)
RECURSIVE C25_TableInArray(_, _)
\* Some Array of the tree holds a Table, directly or inside a nested Array.
C25_TableInArray(v, in_array) ==
    CASE v.tag = "table" ->
             in_array \/ \E k \in DOMAIN v.t : C25_TableInArray(v.t[k], FALSE)
      [] v.tag = "array" -> \E i \in DOMAIN v.items : C25_TableInArray(v.items[i], TRUE)
      [] OTHER -> FALSE

\* C25: serialize returns an error, and never Ok with a text that leaves
\* data out, when an Array anywhere in the tree contains a Table or when the
\* root is not a Table.
C25_IllegalShapeIsError ==
    (output.stage = "serialized"
       /\ (~is_table(values) \/ C25_TableInArray(values, FALSE)))
        => output.res.kind = "Err"

\* The part of C25 about arrays: a Table inside an Array of a tree whose root
\* is a Table is refused.
C25_TableInArrayIsError ==
    (output.stage = "serialized" /\ is_table(values) /\ C25_TableInArray(values, FALSE))
        => output.res.kind = "Err"

(***************************************************************************)
(* Claims about the coercions of Value.                                    *)
(***************************************************************************)
\* The text s is the word w up to the case of its letters.
C26_Spells(s, w) ==
    /\ Len(s) = Len(w)
    /\ \A i \in DOMAIN w :
           \/ s[i] = w[i]
           \/ \E n \in DOMAIN LowerCase : w[i] = LowerCase[n] /\ s[i] = UpperCase[n]

\* C26: as_bool returns Ok(b) for Bool(b), Ok(true) for a String that is
\* true, yes, on or 1 up to case, Ok(false) for a String that is false, no,
\* off or 0 up to case, and for every other value a type error whose
\* expected type is "bool" and whose actual type is the type name of the
\* value.
C26_AsBool ==
    output.stage = "coerced"
        => output.res =
             IF values.tag = "bool" THEN [kind |-> "Ok", b |-> values.b]
             ELSE IF values.tag = "string"
                     /\ \E w \in {<<"t", "r", "u", "e">>, <<"y", "e", "s">>, <<"o", "n">>, <<"1">>} : C26_Spells(values.s, w)
             THEN [kind |-> "Ok", b |-> TRUE]
             ELSE IF values.tag = "string"
                     /\ \E w \in {<<"f", "a", "l", "s", "e">>, <<"n", "o">>, <<"o", "f", "f">>, <<"0">>} : C26_Spells(values.s, w)
             THEN [kind |-> "Ok", b |-> FALSE]
             ELSE [kind |-> "TypeMismatch", expected_type |-> "bool",
                   actual_type |-> CASE values.tag = "null" -> "null"
                                     [] values.tag = "integer" -> "integer"
                                     [] values.tag = "float" -> "float"
                                     [] values.tag = "string" -> "string"
                                     [] values.tag = "array" -> "array"
                                     [] values.tag = "table" -> "table"]

\* A String written in mixed case has been converted.
C26_Witness ==
    /\ output.stage = "coerced"
    /\ \/ values = String(<<"o", "F", "F">>) /\ output.res = [kind |-> "Ok", b |-> FALSE]
       \/ values = String(<<"Y", "e", "S">>) /\ output.res = [kind |-> "Ok", b |-> TRUE]

(***************************************************************************)
(* Claims about the change flag of a Config.                               *)
(***************************************************************************)
\* What a step of an operation does to the flag.
C27_Step ==
    /\ last'.op = "set" => modified' = (modified \/ last'.res = "Ok")
    /\ last'.op = "remove" =>
           /\ modified' = (modified \/ (last'.res = "Ok" /\ last'.out.some))
           /\ (last'.res = "Ok" /\ last'.out.some) <=> values' # values
    /\ last'.op = "mark_clean" => ~modified'
    /\ last'.op = "save" => modified' = (modified /\ last'.res # "Ok")

\* C27: is_modified() is false after new, from_string and from_file; every
\* successful set makes it true; mark_clean and a successful save make it
\* false; a set, remove or save that returns an error leaves it unchanged;
\* remove makes it true only when a value was removed.
C27_ChangeFlag == ~modified /\ [][C27_Step]_vars

\* A Config loaded from a file has been changed by set and then saved.
C27_Witness ==
    /\ output.stage = "config"
    /\ last.op = "save" /\ last.res = "Ok" /\ ~modified
    /\ Get(values, <<"a">>) = Some(Integer(7))

(***************************************************************************)
(* Claims about hot reloading.                                             *)
(***************************************************************************)
\* A reload attempt, by reload or by the watcher thread, that failed.
C28_Failed == last.op \in {"reload", "watch"} /\ last.res = "Err"

\* What the claim says of a failed attempt.
C28_KeptAndReported ==
    /\ values = last.before.values
    /\ output.last_modified = last.before.last_modified
    /\ output.notify => output.events = Append(last.before.events, "ReloadFailed")

\* C28: the configuration behind config() is the result of the most recent
\* successful parse of the file; a reload whose read or parse fails does not
\* replace it, reports ReloadFailed when notifications are enabled and does
\* not advance last_modified.
C28_Fallback ==
    /\ values = output.parsed
    /\ C28_Failed => C28_KeptAndReported

\* The same for the attempts that fail in Config::from_file, after the
\* modification time was read.
C28_FromFileFallback ==
    /\ values = output.parsed
    /\ (C28_Failed /\ last.out = [at |-> "from_file"]) => C28_KeptAndReported

\* C30: the Config that snapshot returns has the values readers see through
\* config().
C30_SnapshotIsCurrent ==
    last.op = "snapshot" => (last.res = "Ok" /\ last.out = values)

(***************************************************************************)
(* Claims about the read-only EnterpriseConfig.                            *)
(***************************************************************************)
\* The last operation was called after make_read_only.
C29_WasReadOnly == output.stage = "enterprise" /\ last.op # "new" /\ last.before.read_only

\* What the claim says of an operation on a read-only EnterpriseConfig.
C29_Frame ==
    /\ last.op \in {"clear", "merge"} => last.res = "Err"
    /\ values = last.before.cache
    /\ output.defaults = last.before.defaults

\* C29: after make_read_only, clear and merge return an error and no
\* operation changes the values of the main cache or of the defaults.
C29_ReadOnlyFrame == C29_WasReadOnly => C29_Frame

\* The same for every operation but set and set_default.
C29_ClearAndMergeRefused ==
    (C29_WasReadOnly /\ last.op \notin {"set", "set_default"}) => C29_Frame

(***************************************************************************)
(* Claims about the caches of an EnterpriseConfig.                         *)
(***************************************************************************)
\* The lookup of a key in the main cache, falling back to the defaults.
C31_Lookup(key) ==
    IF get_nested(values.t, key).some THEN get_nested(values.t, key)
    ELSE get_nested(output.defaults, key)

\* C31: what get(k) returned is what a lookup of k in the main cache,
\* falling back to the defaults, gives at that moment.
C31_GetIsCoherent ==
    (output.stage = "enterprise" /\ last.op = "get") => last.out = C31_Lookup(last.path)

\* The same for a get that missed the fast cache.
C31_MissIsCoherent ==
    (output.stage = "enterprise" /\ last.op = "get"
        /\ output.fast_cache.misses > last.before.misses) =>
        last.out = C31_Lookup(last.path)

(***************************************************************************)
(* Claims about the locks of EnterpriseConfig.                             *)
(***************************************************************************)
\* A thread is inside a call and waits for a lock.
C32_Waits(t) ==
    /\ output.threads[t] # Idle
    /\ ThreadStep(t).do \in {"read", "write"}
    /\ ~CanLock(ThreadStep(t))

\* Every thread that is inside a call waits for a lock: no step of any
\* thread can give one of them its lock.
C32_Stuck ==
    /\ \E t \in Threads : output.threads[t] # Idle
    /\ \A t \in Threads : output.threads[t] # Idle => C32_Waits(t)

\* C32: no interleaving leaves a thread waiting forever for a lock.
C32_DeadlockFree == output.stage = "locks" => ~C32_Stuck

\* Threads wait forever only where one of them is inside merge.
C32_OnlyMergeBlocks ==
    (output.stage = "locks" /\ C32_Stuck) =>
        \E t \in Threads : output.threads[t].call = "merge"

\* The number of entries of the fast cache.
C33_Size == Cardinality(DOMAIN output.fast_cache.hot_values)

\* The last operation called FastCache::insert on a cache of
\* FastCacheCapacity entries: a set (which removes its key first), or a get
\* that missed the fast cache and found the key.
C33_InsertedIntoFull ==
    /\ last.op \in {"get", "set"}
    /\ last.op = "get" => (last.out.some /\ last.path \notin last.before.hot)
    /\ Cardinality(last.before.hot \ {last.path}) = FastCacheCapacity

\* C33: the fast cache holds at most 100 entries, and an insert into a cache
\* of 100 entries evicts 20 of them before it adds its own.
C33_SizeBound ==
    output.stage = "enterprise" =>
        /\ C33_Size <= FastCacheCapacity
        /\ C33_InsertedIntoFull =>
               /\ Cardinality((last.before.hot \ {last.path})
                                \ DOMAIN output.fast_cache.hot_values) = FastCacheEvicted
               /\ last.path \in DOMAIN output.fast_cache.hot_values
               /\ C33_Size = FastCacheCapacity - FastCacheEvicted + 1

\* A get that missed the full fast cache has evicted 20 entries, the entry of
\* key 1 among them, and added its own.
C33_Witness ==
    /\ output.stage = "enterprise"
    /\ C33_InsertedIntoFull
    /\ last.op = "get"
    /\ FastKey(1) \in last.before.hot
    /\ FastKey(1) \notin DOMAIN output.fast_cache.hot_values
    /\ C33_Size = FastCacheCapacity - FastCacheEvicted + 1

(***************************************************************************)
(* Claims about the watcher thread.                                        *)
(***************************************************************************)
\* What a step does once the stop signal is sent: the thread that is at the
\* top of its loop leaves it, and a thread that has left sends no event and
\* reloads nothing.
C34_Step ==
    /\ (output.stop = "sent" /\ output.pc = "poll" /\ output'.pc # "poll") =>
           output'.pc = "done"
    /\ output.pc = "done" =>
           /\ output'.pc = "done"
           /\ output'.events = output.events
           /\ values' = values
           /\ output'.last_modified = output.last_modified

\* stop has returned only if the thread has terminated.
C34_JoinedAfterExit == output.stop = "returned" => output.pc \in {"done", "panicked"}

\* C34: once stop is called or the handle is dropped, the watcher thread
\* sees the signal at its next loop iteration, leaves the loop and then
\* reloads and sends nothing; stop returns only after the thread has
\* terminated, and it always returns.
C34_Cancellation ==
    /\ [][output.stage = "hot" => C34_Step]_vars
    /\ [](output.stage = "hot" => C34_JoinedAfterExit)
    /\ (output.stage = "hot" /\ output.stop = "sent") ~> (output.stop = "returned")

\* The same, but for a thread that a parser keeps in Config::from_file.
C34_CancellationUnlessHung ==
    /\ [][output.stage = "hot" => C34_Step]_vars
    /\ [](output.stage = "hot" => C34_JoinedAfterExit)
    /\ (output.stage = "hot" /\ output.stop = "sent")
           ~> (output.stop = "returned" \/ output.pc = "hung")

\* The tree is written while the flag stays false before and after.
C36_SilentWrite == ~modified /\ ~modified' /\ values' # values

\* C36: while is_modified() is false the tree is the one of the last load,
\* mark_clean or successful save: no operation changes the tree and leaves
\* the flag false.
C36_TrackingIsSound == [][~C36_SilentWrite]_vars

\* The same for the operations of Config that are not get_mut.
C36_SoundWithoutGetMut == [][last'.op # "get_mut" => ~C36_SilentWrite]_vars

\* A line of the input starts with a separator, so that its key is empty.
C35_EmptyKeyLine ==
    \E i \in DOMAIN input :
        /\ input[i] \in {"=", ":"}
        /\ i = 1 \/ input[i - 1] = "\n"

\* C35: the parser terminates on every finite input: the call returns Ok or
\* an error, whatever the text is, a line that starts with `=` or `:`
\* included.
C35_Terminates ==
    output.stage = "parsed" => output.res.kind # "Hang"

\* The parser terminates on the texts without a line that starts with a
\* separator.
C35_TerminatesWithKeys ==
    (output.stage = "parsed" /\ ~C35_EmptyKeyLine) => output.res.kind # "Hang"

\* The input is sectioned CONF text: the CONF parser accepts it and a
\* section of it holds a pair.
C37_Sectioned ==
    LET r == ConfParse(input)
    IN  /\ r.kind = "Ok"
        /\ \E k \in DOMAIN r.value.t :
               is_table(r.value.t[k]) /\ DOMAIN r.value.t[k].t # {}

\* parse_string has been called without a format hint.
C37_Detected ==
    output.stage = "parsed" /\ last.op = "parse_string" /\ ~output.hint.some

\* C37: on sectioned CONF text parse_string without a hint returns what
\* parse_string with the hint conf returns, the section as a nested Table.
C37_DetectionAgrees ==
    (C37_Detected /\ C37_Sectioned) => output.res = ConfParse(input)

\* On sectioned CONF text the detection answers json when the text starts
\* with the header and ini otherwise, never conf.
C37_SectionedIsNeverConf ==
    (C37_Detected /\ C37_Sectioned) =>
        output.format = (IF Head(input) = "[" THEN "json" ELSE "ini")

\* The number of events of the given kinds that were sent.
C38_Sent(kinds) == Cardinality({i \in DOMAIN output.events : output.events[i] \in kinds})

\* The number of changes of the file's modification time since the
\* HotReloadConfig was built.
C38_Changes == input.mtime - 1

\* Every FileModified is followed by one Reloaded or ReloadFailed, once the
\* thread has sent it, and nothing else is sent.
C38_Alternate ==
    \A i \in DOMAIN output.events :
        IF i % 2 = 1 THEN output.events[i] = "FileModified"
        ELSE output.events[i] \in {"Reloaded", "ReloadFailed"}

\* C38: the watcher thread sends one FileModified and then one Reloaded or
\* ReloadFailed for a change of the modification time, and does not repeat
\* them while the file stays unchanged.
C38_EventProtocol ==
    (output.stage = "hot" /\ output.watching /\ output.notify) =>
        /\ C38_Alternate
        /\ C38_Sent({"FileModified"}) <= C38_Changes

\* The same for the changes that were reloaded.
C38_ReloadedOncePerChange ==
    (output.stage = "hot" /\ output.watching /\ output.notify) =>
        /\ C38_Alternate
        /\ C38_Sent({"Reloaded"}) <= C38_Changes
=============================================================================
